---- MODULE Spec2Model ----
(***************************************************************************)
(* PM scheduling engine of the CMMS (pm_scheduler.py) together with the    *)
(* tables it reads and the handlers that write them.                       *)
(*                                                                         *)
(* Time.  A datetime is a number of ticks, TicksPerDay ticks to a day; a   *)
(* parsed date is the tick of its midnight.  timedelta.days is the floor   *)
(* of the tick difference divided by TicksPerDay, as in Python.            *)
(*                                                                         *)
(* Strings that hold dates are records [kind, sep, a, b, c]: three numeric *)
(* fields a, b, c joined by the separator sep.  kind is "null" (SQL NULL), *)
(* "empty", "text" (anything that is not three numeric fields) or "date".  *)
(***************************************************************************)
EXTENDS Integers, Sequences, FiniteSets, TLC

VARIABLES
    now,                  \* datetime.now(), in ticks
    equipment,            \* table equipment: bfm_equipment_no -> row
    priority_map,         \* PMSchedulingService.priority_map: code -> 1..3
    pm_completions,       \* table pm_completions: set of rows
    weekly_pm_schedules,  \* table weekly_pm_schedules: set of rows with id
    query,                \* arguments of the last check_eligibility call
    result,               \* PMEligibilityResult of the last check_eligibility call
    run                   \* arguments and output of the last generate_assignments call

vars == <<now, equipment, priority_map, pm_completions, weekly_pm_schedules,
          query, result, run>>

-----------------------------------------------------------------------------
(* Bounds of the model *)

\* ticks per day: tick 0 of a day is midnight, later ticks are later that day
TicksPerDay == 2

-----------------------------------------------------------------------------
(* Program constants *)

MonthlyMinInterval == 30
AnnualMinInterval == 365
MonthlyMinDays == 30
MonthlyMaxDays == 35
MonthlyIdealFrequency == 30
AnnualMinDays == 365
AnnualMaxDays == 370
AnnualIdealFrequency == 365
CompletionWindowDays == 400
UncompletedLimit == 5
DefaultPriority == 99
NextAnnualFutureDays == 7
NextAnnualOverdueDays == 30
AnnualAfterMonthlyDays == 7
MonthlyAfterAnnualDays == 30
NeverCompletedMonthly == 1000
NeverCompletedAnnual == 900
NextAnnualBase == 500
NextAnnualStep == 10
OverdueBase == 500
OverdueStep == 10
OverdueCap == 999
DueNowBase == 300
DueFallback == 200

\* PMType
MONTHLY == "Monthly"
ANNUAL == "Annual"
PMType == {MONTHLY, ANNUAL}

\* PMStatus
DUE == "due"
NOT_DUE == "not_due"
RECENTLY_COMPLETED == "recently_completed"
CONFLICTED == "conflicted"
PMStatus == {DUE, NOT_DUE, RECENTLY_COMPLETED, CONFLICTED}

\* Python None for an Optional[datetime]
None == -1

-----------------------------------------------------------------------------
(* The calendar of datetime: proleptic Gregorian ordinals *)

IsLeap(y) == (y % 4 = 0) /\ ((y % 100 # 0) \/ (y % 400 = 0))

DaysInMonth(y, m) ==
    IF m = 2 THEN (IF IsLeap(y) THEN 29 ELSE 28)
    ELSE IF m \in {4, 6, 9, 11} THEN 30 ELSE 31

DaysBeforeYear(y) ==
    365 * (y - 1) + ((y - 1) \div 4) - ((y - 1) \div 100) + ((y - 1) \div 400)

RECURSIVE DaysBeforeMonth(_, _)
DaysBeforeMonth(y, m) ==
    IF m = 1 THEN 0 ELSE DaysBeforeMonth(y, m - 1) + DaysInMonth(y, m - 1)

\* date(y, m, d).toordinal()
ToOrdinal(y, m, d) == DaysBeforeYear(y) + DaysBeforeMonth(y, m) + d

\* date.fromordinal(n), as <<year, month, day>>
FromOrdinal(n) ==
    LET y == CHOOSE yy \in (n \div 366) .. (n \div 365 + 1) :
                 DaysBeforeYear(yy) < n /\ n <= DaysBeforeYear(yy + 1)
        m == CHOOSE mm \in 1 .. 12 :
                 /\ ToOrdinal(y, mm, 1) <= n
                 /\ n < ToOrdinal(y, mm, 1) + DaysInMonth(y, mm)
    IN  <<y, m, n - ToOrdinal(y, m, 1) + 1>>

\* the datetime of midnight of the day with ordinal n
Midnight(n) == n * TicksPerDay

\* (a - b).days for datetimes a, b: timedelta.days is the floor
TimedeltaDays(a, b) == (a - b) \div TicksPerDay

\* datetime.date() as an ordinal
DateOf(t) == t \div TicksPerDay

-----------------------------------------------------------------------------
(* Strings holding dates *)

NullStr == [kind |-> "null", sep |-> "", a |-> 0, b |-> 0, c |-> 0]
EmptyStr == [kind |-> "empty", sep |-> "", a |-> 0, b |-> 0, c |-> 0]
TextStr == [kind |-> "text", sep |-> "", a |-> 0, b |-> 0, c |-> 0]
\* three numeric fields joined by sep; the field numbered wide (1 or 3) is
\* written with four digits, with leading zeros where its value needs them;
\* every other field is written with the digits of its value
PaddedDateStr(sep, wide, a, b, c) ==
    [kind |-> "date", sep |-> sep, a |-> a, b |-> b, c |-> c, wide |-> wide]
DateStr(sep, a, b, c) == PaddedDateStr(sep, 0, a, b, c)
\* a value that is not a string, such as a date object read from a DATE column
NotAStr == [kind |-> "object", sep |-> "", a |-> 0, b |-> 0, c |-> 0]

\* Python truthiness of an Optional[str]
Truthy(s) == s.kind \notin {"null", "empty"}

\* the field numbered i, of value n, is one that %Y matches: four digits of
\* a year from 1 to 9999; and one that %m or %d can match: one or two digits
IsYearField(s, i, n) == n \in 1000 .. 9999 \/ (s.wide = i /\ n \in 1 .. 999)
IsShortField(s, i, n) == n \in 1 .. 99 /\ s.wide # i

\* datetime.strptime(s, fmt) for a format of a year, a month and a day
\* directive in the order `order`, joined by `sep`; None when it raises
\* ValueError (no match, day out of range) or TypeError (not a string)
Strptime(s, sep, order) ==
    LET y == IF order = "Ymd" THEN s.a ELSE s.c
        m == IF order = "Ymd" THEN s.b ELSE IF order = "mdY" THEN s.a ELSE s.b
        d == IF order = "Ymd" THEN s.c ELSE IF order = "mdY" THEN s.b ELSE s.a
        yi == IF order = "Ymd" THEN 1 ELSE 3
        mi == IF order = "Ymd" THEN 2 ELSE IF order = "mdY" THEN 1 ELSE 2
        di == IF order = "Ymd" THEN 3 ELSE IF order = "mdY" THEN 2 ELSE 1
    IN  IF /\ s.kind = "date"
           /\ s.sep = sep
           /\ IsYearField(s, yi, y)
           /\ IsShortField(s, mi, m) /\ m <= 12
           /\ IsShortField(s, di, d) /\ d <= DaysInMonth(y, m)
        THEN Midnight(ToOrdinal(y, m, d))
        ELSE None

\* the formats parse_flexible tries after '%Y-%m-%d', in order
formats == << <<"/", "mdY">>, <<"/", "dmY">>, <<"/", "Ymd">>, <<"-", "mdY">> >>

RECURSIVE TryFormats(_, _)
TryFormats(s, i) ==
    IF i > Len(formats) THEN None
    ELSE LET r == Strptime(s, formats[i][1], formats[i][2])
         IN  IF r # None THEN r ELSE TryFormats(s, i + 1)

\* parse_flexible without the first attempt with '%Y-%m-%d'
parse_flexible_other_formats_only(date_string) ==
    IF ~Truthy(date_string) THEN None ELSE TryFormats(date_string, 1)

\* DateParser.parse_flexible
parse_flexible(date_string) ==
    IF ~Truthy(date_string) THEN None
    ELSE LET r == Strptime(date_string, "-", "Ymd")
         IN  IF r # None THEN r ELSE TryFormats(date_string, 1)

\* datetime.strftime('%Y-%m-%d') on a platform whose C library writes %Y
\* with leading zeros (pads_year) or with the digits of the year only, as
\* glibc does
strftime_on(pads_year, t) ==
    LET ymd == FromOrdinal(DateOf(t))
    IN  PaddedDateStr("-", IF pads_year /\ ymd[1] < 1000 THEN 1 ELSE 0,
                      ymd[1], ymd[2], ymd[3])

\* datetime.strftime('%Y-%m-%d') of a date of a year from 1000 on
Strftime(t) == strftime_on(FALSE, t)

-----------------------------------------------------------------------------
(* Small helpers for lists *)

Min(a, b) == IF a < b THEN a ELSE b
Max(a, b) == IF a > b THEN a ELSE b
Abs(a) == IF a < 0 THEN -a ELSE a

\* the elements of the set S as a list in ascending order of Key;
\* rows with equal keys come in a fixed order
SortedSeq(S, key) ==
    LET RECURSIVE Build(_)
        Build(R) ==
            IF R = {} THEN <<>>
            ELSE LET x == CHOOSE x \in R : \A y \in R : key[x] <= key[y]
                 IN  <<x>> \o Build(R \ {x})
    IN  Build(S)

\* the slice s[-n:] for positive n: the last n elements
Take_from_end(s, n) ==
    SubSeq(s, Len(s) - Min(Max(n, 0), Len(s)) + 1, Len(s))

\* the Python slice s[:n]
Take(s, n) ==
    IF n >= 0 THEN SubSeq(s, 1, Min(n, Len(s)))
    ELSE SubSeq(s, 1, Max(Len(s) + n, 0))

\* the grouping loops without the check of the length of the list
GroupRows_unlimited(keys, vals, limit) ==
    LET RECURSIVE Loop(_, _)
        Loop(i, cache) ==
            IF i > Len(keys) THEN cache
            ELSE LET entered == IF keys[i] \in DOMAIN cache THEN cache
                                ELSE cache @@ (keys[i] :> <<>>)
                 IN  Loop(i + 1, [entered EXCEPT ![keys[i]] = Append(@, vals[i])])
    IN  Loop(1, <<>>)

\* the loops that group fetched rows into a cache: row i goes under keys[i],
\* a key is entered when its first row comes, and vals[i] is appended while
\* the list of the key has fewer than limit entries
GroupRows(keys, vals, limit) ==
    LET RECURSIVE Loop(_, _)
        Loop(i, cache) ==
            IF i > Len(keys) THEN cache
            ELSE LET entered == IF keys[i] \in DOMAIN cache THEN cache
                                ELSE cache @@ (keys[i] :> <<>>)
                 IN  Loop(i + 1,
                          IF Len(entered[keys[i]]) < limit
                          THEN [entered EXCEPT ![keys[i]] = Append(@, vals[i])]
                          ELSE entered)
    IN  Loop(1, <<>>)

\* dict.get(key, default)
DictGet(dict, key, default) == IF key \in DOMAIN dict THEN dict[key] ELSE default

\* a cache attribute of a repository: None until bulk loaded
NoCache == [loaded |-> FALSE, data |-> <<>>]
Cache(data) == [loaded |-> TRUE, data |-> data]

-----------------------------------------------------------------------------
(* CompletionRecordRepository *)

\* CURRENT_DATE of the database
CURRENT_DATE == DateOf(now)

\* completion_date::DATE of a stored completion date: PostgreSQL reads the
\* ISO form and, with its default DateStyle, the month-first slash form
SqlDate(s) ==
    LET iso == Strptime(s, "-", "Ymd")
    IN  DateOf(IF iso # None THEN iso ELSE Strptime(s, "/", "mdY"))

\* the rows the completion queries select, for one equipment code
CompletionRows(bfm_no, days) ==
    {r \in pm_completions :
        /\ r.bfm_equipment_no = bfm_no
        /\ SqlDate(r.completion_date) >= CURRENT_DATE - days}

\* the CompletionRecord the loops build from a fetched row
CompletionRecordOf(r) ==
    [bfm_no |-> r.bfm_equipment_no,
     pm_type |-> IF r.pm_type = "Monthly" THEN MONTHLY ELSE ANNUAL,
     completion_date |-> Strptime(r.completion_date, "-", "Ymd"),
     technician |-> r.technician_name]

\* the loop with the type of a row kept as it is written in the table
CompletionRecords_exact_types(rows) ==
    LET recs == {<<r, [CompletionRecordOf(r) EXCEPT !.pm_type = r.pm_type]>> :
                    r \in {q \in rows : Strptime(q.completion_date, "-", "Ymd") # None}}
        sorted == SortedSeq(recs, [p \in recs |->
                      p[1].bfm_equipment_no * 10000000 - p[2].completion_date])
    IN  [i \in 1 .. Len(sorted) |-> sorted[i][2]]

\* the loop that turns fetched rows into CompletionRecords, one for each
\* row whose date strptime('%Y-%m-%d') accepts; the rows come in the order
\* of ORDER BY bfm_equipment_no, completion_date DESC, and a row that is
\* skipped leaves the order of the others as it is
CompletionRecords(rows) ==
    LET recs == {<<r, CompletionRecordOf(r)>> :
                    r \in {q \in rows : Strptime(q.completion_date, "-", "Ymd") # None}}
        sorted == SortedSeq(recs, [p \in recs |->
                      p[1].bfm_equipment_no * 10000000 - p[2].completion_date])
    IN  [i \in 1 .. Len(sorted) |-> sorted[i][2]]

\* the records grouped by equipment code, in the order they come
GroupCompletions(records) ==
    GroupRows([i \in 1 .. Len(records) |-> records[i].bfm_no], records,
              Len(records) + 1)

\* bulk_load_completions: the value of _completion_cache, one list per
\* equipment code that has a row the loop keeps
bulk_load_completions(days) ==
    LET rows == {q \in pm_completions :
                    SqlDate(q.completion_date) >= CURRENT_DATE - days}
    IN  Cache(GroupCompletions(CompletionRecords(rows)))

\* get_recent_completions
get_recent_completions(repo, bfm_no, days) ==
    IF repo.completion_cache.loaded
    THEN DictGet(repo.completion_cache.data, bfm_no, <<>>)
    ELSE CompletionRecords(CompletionRows(bfm_no, days))

\* one fetched row of a scheduled-PM query as the dict the code builds
ScheduledDict(r) ==
    [bfm_no |-> r.bfm_equipment_no, pm_type |-> r.pm_type,
     technician |-> r.assigned_technician, status |-> r.status]

\* the rows of the week for one equipment code, as dicts in id order
ScheduledRows(week_start, bfm_no) ==
    LET rows == {r \in weekly_pm_schedules :
                    /\ r.week_start_date = DateOf(week_start)
                    /\ r.bfm_equipment_no = bfm_no}
        sorted == SortedSeq(rows, [r \in rows |-> r.id])
    IN  [i \in 1 .. Len(sorted) |-> ScheduledDict(sorted[i])]

\* bulk_load_scheduled: the value of _scheduled_cache
bulk_load_scheduled(week_start) ==
    LET rows == {q \in weekly_pm_schedules : q.week_start_date = DateOf(week_start)}
        fetched == SortedSeq(rows, [r \in rows |-> r.id])
    IN  Cache(GroupRows([i \in 1 .. Len(fetched) |-> fetched[i].bfm_equipment_no],
                        [i \in 1 .. Len(fetched) |-> ScheduledDict(fetched[i])],
                        Len(fetched) + 1))

\* get_scheduled_pms, called with an equipment code
get_scheduled_pms(repo, week_start, bfm_no) ==
    IF repo.scheduled_cache.loaded
    THEN DictGet(repo.scheduled_cache.data, bfm_no, <<>>)
    ELSE ScheduledRows(week_start, bfm_no)

\* one fetched row of an uncompleted-schedule query as the dict the code builds
UncompletedDict(r) ==
    [week_start |-> r.week_start_date, technician |-> r.assigned_technician,
     status |-> r.status, scheduled_date |-> r.scheduled_date]

\* the comparison of the WHERE clause the wrong way round
UncompletedBefore_flipped(r, before_week) ==
    r.week_start_date > DateOf(before_week) /\ r.status = "Scheduled"

\* WHERE week_start_date < %s AND status = 'Scheduled'
UncompletedBefore(r, before_week) ==
    r.week_start_date < DateOf(before_week) /\ r.status = "Scheduled"

\* the uncompleted rows of earlier weeks for one equipment and PM type, as
\* dicts, newest week first, at most 5
UncompletedRows(bfm_no, pm_type_value, before_week) ==
    LET rows == {r \in weekly_pm_schedules :
                    /\ r.bfm_equipment_no = bfm_no
                    /\ r.pm_type = pm_type_value
                    /\ UncompletedBefore(r, before_week)}
        sorted == SortedSeq(rows, [r \in rows |-> -r.week_start_date])
        dicts == [i \in 1 .. Len(sorted) |-> UncompletedDict(sorted[i])]
    IN  Take(dicts, UncompletedLimit)

\* bulk_load_uncompleted_schedules that caches no row
bulk_load_uncompleted_schedules_empty(before_week) == Cache(<<>>)

\* bulk_load_uncompleted_schedules: the value of _uncompleted_cache, keyed
\* by equipment code and PM type
bulk_load_uncompleted_schedules(before_week) ==
    LET rows == {q \in weekly_pm_schedules : UncompletedBefore(q, before_week)}
        fetched ==
            SortedSeq(rows,
                [r \in rows |->
                    (r.bfm_equipment_no * 2 + (IF r.pm_type = "Annual" THEN 0 ELSE 1))
                        * 1000000 - r.week_start_date])
    IN  Cache(GroupRows([i \in 1 .. Len(fetched) |->
                            <<fetched[i].bfm_equipment_no, fetched[i].pm_type>>],
                        [i \in 1 .. Len(fetched) |-> UncompletedDict(fetched[i])],
                        UncompletedLimit))

\* get_uncompleted_schedules that finds no entry
get_uncompleted_schedules_none(repo, bfm_no, pm_type, before_week) == <<>>

\* get_uncompleted_schedules
get_uncompleted_schedules(repo, bfm_no, pm_type, before_week) ==
    IF repo.uncompleted_cache.loaded
    THEN DictGet(repo.uncompleted_cache.data, <<bfm_no, pm_type>>, <<>>)
    ELSE UncompletedRows(bfm_no, pm_type, before_week)

\* bulk_load_next_annual: the value of _next_annual_cache
bulk_load_next_annual ==
    LET codes == {b \in DOMAIN equipment : Truthy(equipment[b].next_annual_pm)}
    IN  Cache([b \in codes |-> equipment[b].next_annual_pm])

\* the next-annual-PM string check_eligibility works with: from the cache,
\* else from the equipment table
next_annual_str(repo, bfm_no) ==
    IF repo.next_annual_cache.loaded
    THEN DictGet(repo.next_annual_cache.data, bfm_no, NullStr)
    ELSE IF bfm_no \in DOMAIN equipment /\ Truthy(equipment[bfm_no].next_annual_pm)
         THEN equipment[bfm_no].next_annual_pm
         ELSE NullStr

\* a repository and checker straight after construction: no cache loaded
NewRepo ==
    [completion_cache |-> NoCache, scheduled_cache |-> NoCache,
     uncompleted_cache |-> NoCache, next_annual_cache |-> NoCache]

\* the four bulk loads of generate_weekly_schedule
LoadedRepo(week_start) ==
    [completion_cache |-> bulk_load_completions(CompletionWindowDays),
     scheduled_cache |-> bulk_load_scheduled(week_start),
     uncompleted_cache |-> bulk_load_uncompleted_schedules(week_start),
     next_annual_cache |-> bulk_load_next_annual]

-----------------------------------------------------------------------------
(* PMEligibilityChecker *)

\* the text of a reason: its wording (tag), the PM type it names, the
\* number of days, the date or week and the name it interpolates
Reason(tag, pm, n, d, who) == [tag |-> tag, pm |-> pm, n |-> n, d |-> d, who |-> who]

\* the dataclass with priority_score: int = 1 as the default
PMEligibilityResult_default_one(status, reason, priority_score, days_overdue) ==
    [status |-> status, reason |-> reason,
     priority_score |-> IF priority_score = 0 THEN 1 ELSE priority_score,
     days_overdue |-> days_overdue]

\* PMEligibilityResult(status, reason, priority_score = 0, days_overdue = 0)
PMEligibilityResult(status, reason, priority_score, days_overdue) ==
    [status |-> status, reason |-> reason,
     priority_score |-> priority_score, days_overdue |-> days_overdue]

\* max(completions, key = completion_date) of a non-empty list
LatestCompletion(completions) ==
    completions[CHOOSE i \in 1 .. Len(completions) :
        /\ \A j \in 1 .. Len(completions) :
              completions[j].completion_date <= completions[i].completion_date
        /\ \A j \in 1 .. i - 1 :
              completions[j].completion_date < completions[i].completion_date]

\* the completions of one PM type in a list
OfType(completions, pm_type) ==
    SelectSeq(completions, LAMBDA c : c.pm_type = pm_type)

\* the Monthly interval returned for every PM type
get_minimum_interval_flat(pm_type) == MonthlyMinInterval

\* PMEligibilityChecker._get_minimum_interval
get_minimum_interval(pm_type) ==
    IF pm_type = MONTHLY THEN MonthlyMinInterval ELSE AnnualMinInterval

\* no completion of the other type ever blocks
check_cross_pm_conflicts_never(recent_completions, pm_type) ==
    PMEligibilityResult(DUE, Reason("no_cross_pm_conflicts", "", 0, 0, ""), 0, 0)

\* PMEligibilityChecker._check_cross_pm_conflicts
check_cross_pm_conflicts(recent_completions, pm_type) ==
    LET no_conflict ==
            PMEligibilityResult(DUE, Reason("no_cross_pm_conflicts", "", 0, 0, ""), 0, 0)
    IN  IF pm_type = ANNUAL
        THEN LET monthly_completions == OfType(recent_completions, MONTHLY)
             IN  IF monthly_completions # <<>>
                 THEN LET latest_monthly == LatestCompletion(monthly_completions)
                          days_since_monthly ==
                              TimedeltaDays(now, latest_monthly.completion_date)
                      IN  IF days_since_monthly < AnnualAfterMonthlyDays
                          THEN PMEligibilityResult(CONFLICTED,
                                   Reason("annual_blocked", "", days_since_monthly, 0, ""),
                                   0, 0)
                          ELSE no_conflict
                 ELSE no_conflict
        ELSE LET annual_completions == OfType(recent_completions, ANNUAL)
             IN  IF annual_completions # <<>>
                 THEN LET latest_annual == LatestCompletion(annual_completions)
                          days_since_annual ==
                              TimedeltaDays(now, latest_annual.completion_date)
                      IN  IF days_since_annual < MonthlyAfterAnnualDays
                          THEN PMEligibilityResult(CONFLICTED,
                                   Reason("monthly_blocked", "", days_since_annual, 0, ""),
                                   0, 0)
                          ELSE no_conflict
                 ELSE no_conflict

\* the two never-completed priorities the wrong way round
never_completed_priority_swapped(pm_type) ==
    IF pm_type = MONTHLY THEN NeverCompletedAnnual ELSE NeverCompletedMonthly

\* the overdue priority without its cap
overdue_priority_uncapped(days_overdue) == OverdueBase + days_overdue * OverdueStep

\* the priority of a PM that was never completed
never_completed_priority(pm_type) ==
    IF pm_type = MONTHLY THEN NeverCompletedMonthly ELSE NeverCompletedAnnual

\* the priority of a PM that is days_overdue days past its ideal frequency
overdue_priority(days_overdue) ==
    Min(OverdueBase + days_overdue * OverdueStep, OverdueCap)

\* PMEligibilityChecker._check_due_date
\* overdue only from the eleventh day past the ideal frequency
is_overdue_after_ten(days_overdue) == days_overdue > 10

\* if days_overdue > 0
is_overdue(days_overdue) == days_overdue > 0

\* the days since the last completion taken as the days overdue
days_overdue_since_completion(days_since_completion, ideal_frequency) ==
    days_since_completion

\* days_overdue = days_since_completion - ideal_frequency
days_overdue_of(days_since_completion, ideal_frequency) ==
    days_since_completion - ideal_frequency

\* the days since the last completion reported as the days remaining
days_remaining_elapsed(min_days, days_since_completion) == days_since_completion

\* min_days - days_since_completion
days_remaining(min_days, days_since_completion) == min_days - days_since_completion

\* PMEligibilityChecker._check_due_date
check_due_date(eq, pm_type, recent_completions) ==
    LET same_type_completions == OfType(recent_completions, pm_type)
        from_table == same_type_completions # <<>>
        last_completion_date ==
            IF from_table
            THEN LatestCompletion(same_type_completions).completion_date
            ELSE parse_flexible(IF pm_type = MONTHLY THEN eq.last_monthly_date
                                ELSE eq.last_annual_date)
        source == IF from_table THEN "pm_completions_table" ELSE "equipment_table"
        days_since_completion == TimedeltaDays(now, last_completion_date)
        min_days == IF pm_type = MONTHLY THEN MonthlyMinDays ELSE AnnualMinDays
        max_days == IF pm_type = MONTHLY THEN MonthlyMaxDays ELSE AnnualMaxDays
        ideal_frequency == IF pm_type = MONTHLY THEN MonthlyIdealFrequency
                           ELSE AnnualIdealFrequency
        days_overdue == days_overdue_of(days_since_completion, ideal_frequency)
        last == DateOf(last_completion_date)
    IN  IF last_completion_date = None
        THEN PMEligibilityResult(DUE, Reason("never_completed", pm_type, 0, 0, ""),
                 never_completed_priority(pm_type), 0)
        ELSE IF days_since_completion >= min_days
        THEN IF is_overdue(days_overdue)
             THEN PMEligibilityResult(DUE,
                      Reason("overdue", pm_type, days_overdue, last, source),
                      overdue_priority(days_overdue), days_overdue)
             ELSE IF days_since_completion <= max_days
             THEN PMEligibilityResult(DUE,
                      Reason("due_now", pm_type, days_since_completion, last, source),
                      DueNowBase - Abs(days_since_completion - ideal_frequency), 0)
             ELSE PMEligibilityResult(DUE,
                      Reason("due", pm_type, days_since_completion, last, source),
                      DueFallback, 0)
        ELSE PMEligibilityResult(NOT_DUE,
                 Reason("not_due_for", pm_type,
                        days_remaining(min_days, days_since_completion),
                        last, source), 0, 0)

\* the part of check_eligibility after the uncompleted-schedule check and
\* the Next Annual PM Date block: recent completions, cross-PM conflicts,
\* this week's schedule, due date
check_after_override(repo, eq, pm_type, week_start) ==
    LET recent_completions ==
            get_recent_completions(repo, eq.bfm_no, CompletionWindowDays)
        same_type_completions == OfType(recent_completions, pm_type)
        days_since ==
            TimedeltaDays(now, LatestCompletion(same_type_completions).completion_date)
        min_interval == get_minimum_interval(pm_type)
        conflict_result == check_cross_pm_conflicts(recent_completions, pm_type)
        scheduled_pms == get_scheduled_pms(repo, week_start, eq.bfm_no)
    IN  IF same_type_completions # <<>> /\ days_since < min_interval
        THEN PMEligibilityResult(RECENTLY_COMPLETED,
                 Reason("completed_days_ago", pm_type, days_since, min_interval, ""),
                 0, 0)
        ELSE IF conflict_result.status = CONFLICTED
        THEN conflict_result
        ELSE IF \E i \in 1 .. Len(scheduled_pms) : scheduled_pms[i].pm_type = pm_type
        THEN PMEligibilityResult(CONFLICTED,
                 Reason("already_scheduled_this_week", "", 0, 0, ""), 0, 0)
        ELSE check_due_date(eq, pm_type, recent_completions)

\* the Next Annual PM Date rule with no limit on how long ago the date is
in_override_window_unbounded(days_until_next_annual) == TRUE

\* elif days_until_next_annual >= -30
in_override_window(days_until_next_annual) ==
    days_until_next_annual >= -NextAnnualOverdueDays

\* the Next Annual PM Date block with the days until the date counted from
\* the target week
check_next_annual_from_week(repo, eq, pm_type, week_start) ==
    LET str == next_annual_str(repo, eq.bfm_no)
        next_annual_date == parse_flexible(str)
        days_until_next_annual == TimedeltaDays(next_annual_date, week_start)
        overdue == Abs(Min(days_until_next_annual, 0))
    IN  IF pm_type = ANNUAL /\ Truthy(str) /\ next_annual_date # None
           /\ days_until_next_annual > NextAnnualFutureDays
        THEN PMEligibilityResult(NOT_DUE,
                 Reason("annual_scheduled_for", "", days_until_next_annual,
                        DateOf(next_annual_date), ""), 0, 0)
        ELSE IF pm_type = ANNUAL /\ Truthy(str) /\ next_annual_date # None
                /\ in_override_window(days_until_next_annual)
        THEN PMEligibilityResult(DUE,
                 Reason("annual_due_by_next_annual_date", "", 0,
                        DateOf(next_annual_date), ""),
                 NextAnnualBase + overdue * NextAnnualStep, overdue)
        ELSE check_after_override(repo, eq, pm_type, week_start)

\* the Next Annual PM Date block of check_eligibility and what follows it
check_next_annual(repo, eq, pm_type, week_start) ==
    LET str == next_annual_str(repo, eq.bfm_no)
        next_annual_date == parse_flexible(str)
        days_until_next_annual == TimedeltaDays(next_annual_date, now)
        overdue == Abs(Min(days_until_next_annual, 0))
    IN  IF pm_type = ANNUAL /\ Truthy(str) /\ next_annual_date # None
           /\ days_until_next_annual > NextAnnualFutureDays
        THEN PMEligibilityResult(NOT_DUE,
                 Reason("annual_scheduled_for", "", days_until_next_annual,
                        DateOf(next_annual_date), ""), 0, 0)
        ELSE IF pm_type = ANNUAL /\ Truthy(str) /\ next_annual_date # None
                /\ in_override_window(days_until_next_annual)
        THEN PMEligibilityResult(DUE,
                 Reason("annual_due_by_next_annual_date", "", 0,
                        DateOf(next_annual_date), ""),
                 NextAnnualBase + overdue * NextAnnualStep, overdue)
        ELSE check_after_override(repo, eq, pm_type, week_start)

\* check_eligibility with the uncompleted-schedule check ahead of the check
\* that the equipment supports the PM type
check_eligibility_conflict_first(repo, eq, pm_type, week_start) ==
    LET uncompleted_schedules ==
            get_uncompleted_schedules(repo, eq.bfm_no, pm_type, week_start)
        oldest_uncompleted == uncompleted_schedules[Len(uncompleted_schedules)]
    IN  IF uncompleted_schedules # <<>>
        THEN PMEligibilityResult(CONFLICTED,
                 Reason("already_scheduled_uncompleted", "", 0,
                        oldest_uncompleted.week_start, oldest_uncompleted.technician),
                 0, 0)
        ELSE IF pm_type = MONTHLY /\ ~eq.has_monthly
        THEN PMEligibilityResult(NOT_DUE, Reason("no_monthly_pm", "", 0, 0, ""), 0, 0)
        ELSE IF pm_type = ANNUAL /\ ~eq.has_annual
        THEN PMEligibilityResult(NOT_DUE, Reason("no_annual_pm", "", 0, 0, ""), 0, 0)
        ELSE check_next_annual(repo, eq, pm_type, week_start)

\* PMEligibilityChecker.check_eligibility
check_eligibility(repo, eq, pm_type, week_start) ==
    LET uncompleted_schedules ==
            get_uncompleted_schedules(repo, eq.bfm_no, pm_type, week_start)
        oldest_uncompleted == uncompleted_schedules[Len(uncompleted_schedules)]
    IN  IF pm_type = MONTHLY /\ ~eq.has_monthly
        THEN PMEligibilityResult(NOT_DUE, Reason("no_monthly_pm", "", 0, 0, ""), 0, 0)
        ELSE IF pm_type = ANNUAL /\ ~eq.has_annual
        THEN PMEligibilityResult(NOT_DUE, Reason("no_annual_pm", "", 0, 0, ""), 0, 0)
        ELSE IF uncompleted_schedules # <<>>
        THEN PMEligibilityResult(CONFLICTED,
                 Reason("already_scheduled_uncompleted", "", 0,
                        oldest_uncompleted.week_start, oldest_uncompleted.technician),
                 0, 0)
        ELSE check_next_annual(repo, eq, pm_type, week_start)

-----------------------------------------------------------------------------
(* PMAssignmentGenerator *)

\* PMAssignment(bfm_no, pm_type, description, priority_score, reason)
PMAssignment(bfm_no, pm_type, description, priority_score, reason) ==
    [bfm_no |-> bfm_no, pm_type |-> pm_type, description |-> description,
     priority_score |-> priority_score, reason |-> reason]

\* equipment_priority_map after the loop: the priority of the last active
\* item of the list with each code
equipment_priority_map(equipment_list) ==
    LET active == {i \in 1 .. Len(equipment_list) : equipment_list[i].status = "Active"}
        codes == {equipment_list[i].bfm_no : i \in active}
        last(b) == CHOOSE i \in active :
                       /\ equipment_list[i].bfm_no = b
                       /\ \A j \in active : equipment_list[j].bfm_no = b => j <= i
    IN  [b \in codes |-> equipment_list[last(b)].priority]

\* has_monthly_assignment without the test: the Annual check is never skipped
has_monthly_assignment_never(potential_assignments, eq) == FALSE

\* has_monthly_assignment: a Monthly assignment of the item is in the list
has_monthly_assignment(potential_assignments, eq) ==
    \E i \in 1 .. Len(potential_assignments) :
        /\ potential_assignments[i].bfm_no = eq.bfm_no
        /\ potential_assignments[i].pm_type = MONTHLY

\* potential_assignments.append(PMAssignment(...)) when the PM type is
\* wanted and the result of its check is DUE
append_if_due(potential_assignments, eq, pm_type, wanted, eligibility) ==
    IF wanted /\ eligibility.status = DUE
    THEN Append(potential_assignments,
                PMAssignment(eq.bfm_no, pm_type, eq.description,
                             eligibility.priority_score, eligibility.reason))
    ELSE potential_assignments

\* the Annual part of the loop body, from the assignments after the
\* Monthly part
process_annual(repo, eq, week_start, potential_assignments) ==
    append_if_due(potential_assignments, eq, ANNUAL,
                  eq.has_annual /\ ~has_monthly_assignment(potential_assignments, eq),
                  check_eligibility(repo, eq, ANNUAL, week_start))

\* the loop body without the skip of equipment that is not 'Active'
process_equipment_any_status(repo, eq, week_start, potential_assignments) ==
    process_annual(repo, eq, week_start,
        append_if_due(potential_assignments, eq, MONTHLY, eq.has_monthly,
                      check_eligibility(repo, eq, MONTHLY, week_start)))

\* one pass of the loop body for the item eq, from the assignments so far
process_equipment(repo, eq, week_start, potential_assignments) ==
    IF eq.status # "Active" THEN potential_assignments
    ELSE process_annual(repo, eq, week_start,
             append_if_due(potential_assignments, eq, MONTHLY, eq.has_monthly,
                           check_eligibility(repo, eq, MONTHLY, week_start)))

\* potential_assignments after the first n items of the list
RECURSIVE collect_assignments(_, _, _, _)
collect_assignments(repo, equipment_list, week_start, n) ==
    IF n = 0 THEN <<>>
    ELSE process_equipment(repo, equipment_list[n], week_start,
             collect_assignments(repo, equipment_list, week_start, n - 1))

\* the sort key reduced to the negated score, the priority class left out
KeyLess_score_only(map, x, y) == -x.priority_score < -y.priority_score

\* the sort key of an assignment compares below that of another
KeyLess(map, x, y) ==
    LET px == DictGet(map, x.bfm_no, DefaultPriority)
        py == DictGet(map, y.bfm_no, DefaultPriority)
    IN  px < py \/ (px = py /\ -x.priority_score < -y.priority_score)

\* x put into the sorted list after every element whose key is not above its own
InsertByKey(map, sorted, x) ==
    LET k == Cardinality({i \in 1 .. Len(sorted) : ~KeyLess(map, x, sorted[i])})
    IN  SubSeq(sorted, 1, k) \o <<x>> \o SubSeq(sorted, k + 1, Len(sorted))

\* list.sort(key = (priority class, -priority_score)): a stable sort
RECURSIVE sort_assignments(_, _)
sort_assignments(map, list) ==
    IF list = <<>> THEN <<>>
    ELSE InsertByKey(map, sort_assignments(map, SubSeq(list, 1, Len(list) - 1)),
                     list[Len(list)])

\* the sorted potential_assignments of generate_assignments
sorted_potential(repo, equipment_list, week_start) ==
    sort_assignments(equipment_priority_map(equipment_list),
        collect_assignments(repo, equipment_list, week_start, Len(equipment_list)))

\* PMAssignmentGenerator.generate_assignments
generate_assignments(repo, equipment_list, week_start, max_assignments) ==
    Take(sorted_potential(repo, equipment_list, week_start), max_assignments)

-----------------------------------------------------------------------------
(* PMSchedulingService *)

\* the Equipment object built from a row of the equipment table
EquipmentOf(bfm_no) ==
    LET row == equipment[bfm_no]
    IN  [bfm_no |-> bfm_no,
         description |-> row.description,
         has_monthly |-> row.monthly_pm = "X",
         has_annual |-> row.annual_pm = "X",
         last_monthly_date |-> row.last_monthly_pm,
         last_annual_date |-> row.last_annual_pm,
         status |-> row.status,
         priority |-> DictGet(priority_map, bfm_no, DefaultPriority)]

\* PMSchedulingService._load_equipment_with_priority
load_equipment_with_priority ==
    LET active == {b \in DOMAIN equipment : equipment[b].status = "Active"}
        codes == SortedSeq(active, [b \in active |-> b])
    IN  [i \in 1 .. Len(codes) |-> EquipmentOf(codes[i])]

\* PMSchedulingService.generate_weekly_schedule
generate_weekly_schedule(week_start, max_pms) ==
    generate_assignments(LoadedRepo(week_start), load_equipment_with_priority,
                         week_start, max_pms)

-----------------------------------------------------------------------------
(* Values the specifications draw their inputs from *)

\* the day the runs start on (a Wednesday) and the Mondays around it
Today == ToOrdinal(2025, 3, 12)
ThisWeek == ToOrdinal(2025, 3, 10)
PrevWeek == ThisWeek - 7
NextWeek == ThisWeek + 7

\* the date n days before Today as '%Y-%m-%d' and as '%m/%d/%Y'
IsoDaysAgo(n) == Strftime(Midnight(Today - n))
SlashDaysAgo(n) ==
    LET ymd == FromOrdinal(Today - n) IN DateStr("/", ymd[2], ymd[3], ymd[1])

\* rows of the tables
EquipmentRow(monthly_pm, annual_pm, last_monthly, last_annual, next_annual, status) ==
    [description |-> "equipment", monthly_pm |-> monthly_pm, annual_pm |-> annual_pm,
     last_monthly_pm |-> last_monthly, last_annual_pm |-> last_annual,
     next_annual_pm |-> next_annual, status |-> status]

CompletionRow(bfm_no, pm_type, completion_date, technician) ==
    [bfm_equipment_no |-> bfm_no, pm_type |-> pm_type,
     completion_date |-> completion_date, technician_name |-> technician]

ScheduleRow(id, bfm_no, pm_type, week, technician, status) ==
    [id |-> id, bfm_equipment_no |-> bfm_no, pm_type |-> pm_type,
     week_start_date |-> week, assigned_technician |-> technician,
     status |-> status, scheduled_date |-> week]

NoQuery == [bfm_no |-> 0, pm_type |-> "", week_start |-> 0]
NoResult == PMEligibilityResult("", Reason("", "", 0, 0, ""), 0, 0)
NoRun == [done |-> FALSE, week_start |-> 0, max_assignments |-> 0,
          potential |-> <<>>, assignments |-> <<>>]

-----------------------------------------------------------------------------
(* check_eligibility as a function of its inputs: the inputs of equipment  *)
(* 1 are drawn from the sets below, equipment 2 is a fixed bystander       *)

EligFlags == {"X", ""}

EligLastDates ==
    {<<NullStr, TextStr>>, <<IsoDaysAgo(12), EmptyStr>>,
     <<SlashDaysAgo(40), IsoDaysAgo(366)>>, <<IsoDaysAgo(100), IsoDaysAgo(10)>>}

EligNextAnnual ==
    {NullStr, TextStr, IsoDaysAgo(-8), IsoDaysAgo(10), IsoDaysAgo(30), IsoDaysAgo(45)}

EligMonthlyCompletions ==
    {{},
     {CompletionRow(1, "Monthly", IsoDaysAgo(3), "Ann"),
      CompletionRow(1, "Monthly", IsoDaysAgo(40), "Bob")},
     {CompletionRow(1, "Monthly", IsoDaysAgo(7), "Ann")},
     {CompletionRow(1, "Monthly", IsoDaysAgo(29), "Ann")},
     {CompletionRow(1, "Monthly", IsoDaysAgo(30), "Ann")},
     {CompletionRow(1, "Monthly", IsoDaysAgo(40), "Ann")}}

EligAnnualCompletions ==
    {{},
     {CompletionRow(1, "Annual", IsoDaysAgo(20), "Ann")},
     {CompletionRow(1, "Annual", IsoDaysAgo(364), "Ann")},
     {CompletionRow(1, "Annual", IsoDaysAgo(30), "Ann")},
     {CompletionRow(1, "Six Month", IsoDaysAgo(20), "Ann")}}

\* each entry of equipment 1 that is 'Scheduled' comes with an earlier
\* 'Completed' entry of the other PM type; equipment 1 may have no entry
EligMonthlySchedules ==
    {{},
     {ScheduleRow(1, 1, "Monthly", PrevWeek, "Ann", "Scheduled"),
      ScheduleRow(6, 1, "Annual", PrevWeek, "Cid", "Completed")},
     {ScheduleRow(2, 1, "Monthly", ThisWeek, "Bob", "Scheduled"),
      ScheduleRow(6, 1, "Annual", PrevWeek, "Cid", "Completed")}}

EligAnnualSchedules ==
    {{},
     {ScheduleRow(3, 1, "Annual", PrevWeek, "Ann", "Scheduled"),
      ScheduleRow(5, 1, "Monthly", PrevWeek, "Cid", "Completed")},
     {ScheduleRow(4, 1, "Annual", ThisWeek, "Bob", "Scheduled"),
      ScheduleRow(5, 1, "Monthly", PrevWeek, "Cid", "Completed")}}

\* rows that are in the tables whatever is drawn: the rows of equipment 2
FixedSchedules ==
    {ScheduleRow(7, 2, "Monthly", PrevWeek, "Dan", "Scheduled"),
     ScheduleRow(8, 2, "Annual", ThisWeek, "Dan", "Scheduled")}

FixedCompletions ==
    {CompletionRow(2, "Monthly", IsoDaysAgo(2), "Dan"),
     CompletionRow(2, "Annual", IsoDaysAgo(5), "Dan"),
     CompletionRow(2, "Monthly", SlashDaysAgo(1), "Dan")}

BystanderRow == EquipmentRow("X", "X", NullStr, NullStr, IsoDaysAgo(0), "Active")

\* the priority classes an Equipment object is given
PriorityClasses == {1, DefaultPriority}

EligWeeks == {ThisWeek, NextWeek}

InitElig ==
    /\ now \in {Midnight(Today) + t : t \in 0 .. TicksPerDay - 1}
    /\ \E m \in EligFlags, a \in EligFlags, last \in EligLastDates,
          next \in EligNextAnnual :
          equipment = [b \in {1, 2} |->
                          IF b = 1
                          THEN EquipmentRow(m, a, last[1], last[2], next, "Active")
                          ELSE BystanderRow]
    /\ priority_map = <<>>
    /\ \E mc \in EligMonthlyCompletions, ac \in EligAnnualCompletions :
          pm_completions = mc \cup ac \cup FixedCompletions
    /\ \E ms \in EligMonthlySchedules, as \in EligAnnualSchedules :
          weekly_pm_schedules = ms \cup as \cup FixedSchedules
    /\ query = NoQuery
    /\ result = NoResult
    /\ run = NoRun

\* check_eligibility called on a checker whose repository has no cache
CheckUncached(pm_type, week, priority) ==
    /\ query = NoQuery
    /\ query' = [bfm_no |-> 1, pm_type |-> pm_type, week_start |-> week]
    /\ result' = check_eligibility(NewRepo, [EquipmentOf(1) EXCEPT !.priority = priority],
                                   pm_type, Midnight(week))
    /\ UNCHANGED <<now, equipment, priority_map, pm_completions,
                   weekly_pm_schedules, run>>

\* check_eligibility called after the bulk loads of generate_weekly_schedule
CheckCached(pm_type, week, priority) ==
    /\ query = NoQuery
    /\ query' = [bfm_no |-> 1, pm_type |-> pm_type, week_start |-> week]
    /\ result' = check_eligibility(LoadedRepo(Midnight(week)),
                                   [EquipmentOf(1) EXCEPT !.priority = priority],
                                   pm_type, Midnight(week))
    /\ UNCHANGED <<now, equipment, priority_map, pm_completions,
                   weekly_pm_schedules, run>>

NextElig ==
    \E pm_type \in PMType, week \in EligWeeks, priority \in PriorityClasses :
        \/ CheckUncached(pm_type, week, priority)
        \/ CheckCached(pm_type, week, priority)

SpecElig == InitElig /\ [][NextElig]_vars

-----------------------------------------------------------------------------
(* What the tables say about the equipment and PM type of the last call    *)

Asked == query # NoQuery

AskedRow == equipment[query.bfm_no]

\* the flag of the equipment for the PM type asked about is set
FlagSet ==
    IF query.pm_type = MONTHLY THEN AskedRow.monthly_pm = "X"
    ELSE AskedRow.annual_pm = "X"

\* a 'Scheduled' entry of the equipment and PM type in a week before the target week
PriorScheduled ==
    \E r \in weekly_pm_schedules :
        /\ r.bfm_equipment_no = query.bfm_no
        /\ r.pm_type = query.pm_type
        /\ r.status = "Scheduled"
        /\ r.week_start_date < query.week_start

\* an entry of the equipment and PM type in the target week
SameWeekEntry ==
    \E r \in weekly_pm_schedules :
        /\ r.bfm_equipment_no = query.bfm_no
        /\ r.pm_type = query.pm_type
        /\ r.week_start_date = query.week_start

\* the ages in whole days of the completion rows of the equipment in the
\* 400-day window whose type is in the set types
AgesOf(types) ==
    {DateOf(now) - SqlDate(r.completion_date) :
        r \in {q \in pm_completions :
                  /\ q.bfm_equipment_no = query.bfm_no
                  /\ q.pm_type \in types
                  /\ DateOf(now) - SqlDate(q.completion_date) <= CompletionWindowDays}}

\* the types of the completion rows in the tables
RowTypes == {r.pm_type : r \in pm_completions}

\* the row types counted as the PM type asked about, and as the other one
CountedAsAsked == IF query.pm_type = MONTHLY THEN {"Monthly"} ELSE RowTypes \ {"Monthly"}
CountedAsOther == IF query.pm_type = MONTHLY THEN RowTypes \ {"Monthly"} ELSE {"Monthly"}

\* the age of the most recent row among ages
Latest(ages) == CHOOSE d \in ages : \A e \in ages : d <= e

MinIntervalAsked == IF query.pm_type = MONTHLY THEN 30 ELSE 365

\* the most recent completion of exactly the PM type asked about is younger
\* than the minimum interval
RecentSameType ==
    /\ AgesOf({query.pm_type}) # {}
    /\ Latest(AgesOf({query.pm_type})) < MinIntervalAsked

\* the most recent completion counted as the PM type asked about is younger
\* than the minimum interval
RecentCounted ==
    /\ AgesOf(CountedAsAsked) # {}
    /\ Latest(AgesOf(CountedAsAsked)) < MinIntervalAsked

\* the last-completed date of the equipment row for the PM type asked about
LastDateAsked ==
    IF query.pm_type = MONTHLY THEN AskedRow.last_monthly_pm ELSE AskedRow.last_annual_pm

\* the next-annual-PM date and the days from now to it as the code counts
\* them: the floor of the difference
NextAnnualDate == parse_flexible(AskedRow.next_annual_pm)
NextAnnualFloorDays == TimedeltaDays(NextAnnualDate, now)

\* the next-annual-date rule decides the call
OverrideDecides ==
    /\ query.pm_type = ANNUAL
    /\ NextAnnualDate # None
    /\ NextAnnualFloorDays >= -30

OverrideStatus == IF NextAnnualFloorDays > 7 THEN NOT_DUE ELSE DUE

\* a completion of the other type recent enough to block the type asked about
CrossBlocked ==
    /\ AgesOf(CountedAsOther) # {}
    /\ Latest(AgesOf(CountedAsOther)) < (IF query.pm_type = ANNUAL THEN 7 ELSE 30)

\* what _check_due_date alone returns for the equipment and PM type asked about
GenericResult ==
    check_due_date(EquipmentOf(query.bfm_no), query.pm_type,
                   get_recent_completions(NewRepo, query.bfm_no, CompletionWindowDays))

-----------------------------------------------------------------------------
(* Claims about check_eligibility, under SpecElig *)

\* C1: when the flag for the requested PM type is set and a 'Scheduled'
\* entry of an earlier week exists for the equipment and PM type,
\* check_eligibility returns CONFLICTED, whatever the other inputs are.
C1_PriorWeekConflict ==
    (Asked /\ FlagSet /\ PriorScheduled) => result.status = CONFLICTED

\* C1 witness: a prior-week conflict reported for a PM that the due-date
\* logic alone finds DUE.
C1_Witness ==
    /\ Asked /\ FlagSet /\ PriorScheduled
    /\ result.status = CONFLICTED
    /\ result.reason.tag = "already_scheduled_uncompleted"
    /\ GenericResult.status = DUE

\* C2 as stated: a most recent same-type completion younger than the
\* minimum interval always gives RECENTLY_COMPLETED, whatever the schedule
\* entries and the next-annual date are.
C2_Original ==
    (Asked /\ FlagSet /\ RecentSameType) => result.status = RECENTLY_COMPLETED

\* C2 amended: with a most recent completion counted as the PM type (for
\* Annual every type but 'Monthly') younger than the minimum interval, the
\* result is RECENTLY_COMPLETED unless an earlier rule decides: NOT_DUE
\* without the flag, CONFLICTED with a 'Scheduled' entry of an earlier
\* week, the next-annual-date rule's NOT_DUE or DUE.
C2_MinimumInterval ==
    (Asked /\ RecentCounted) =>
        result.status =
            IF ~FlagSet THEN NOT_DUE
            ELSE IF PriorScheduled THEN CONFLICTED
            ELSE IF OverrideDecides THEN OverrideStatus
            ELSE RECENTLY_COMPLETED

\* C2 witness: RECENTLY_COMPLETED for a completion 29 days old although the
\* PM is already scheduled in the target week.
C2_Witness ==
    /\ Asked /\ FlagSet /\ RecentSameType /\ ~PriorScheduled /\ ~OverrideDecides
    /\ Latest(AgesOf({query.pm_type})) = 29
    /\ SameWeekEntry
    /\ result.status = RECENTLY_COMPLETED

\* C5: without the flag for the requested PM type the result is NOT_DUE,
\* whatever the schedule entries, completions and dates are.
C5_Applicability ==
    (Asked /\ ~FlagSet) => result.status = NOT_DUE

\* C5 witness: NOT_DUE without the flag although a 'Scheduled' entry of an
\* earlier week exists.
C5_Witness ==
    /\ Asked /\ ~FlagSet /\ PriorScheduled
    /\ result.status = NOT_DUE

\* C6 as stated: with the flag set, no completion of the PM type in the
\* window and no parseable last-completed date, the result is always DUE
\* with priority 1000 (Monthly) or 900 (Annual).
C6_Original ==
    (Asked /\ FlagSet /\ AgesOf({query.pm_type}) = {}
           /\ parse_flexible(LastDateAsked) = None) =>
        /\ result.status = DUE
        /\ result.priority_score = (IF query.pm_type = MONTHLY THEN 1000 ELSE 900)

\* C6 amended: with the flag set, no completion counted as the PM type in the
\* window and no parseable last-completed date, the result is DUE with
\* priority 1000 (Monthly) or 900 (Annual) unless an earlier rule decides:
\* CONFLICTED with a 'Scheduled' entry of an earlier week, the
\* next-annual-date rule's result, CONFLICTED with a cross-type conflict or
\* with an entry in the target week.
C6_NeverCompleted ==
    (Asked /\ FlagSet /\ AgesOf(CountedAsAsked) = {}
           /\ parse_flexible(LastDateAsked) = None) =>
        IF PriorScheduled THEN result.status = CONFLICTED
        ELSE IF OverrideDecides THEN result.status = OverrideStatus
        ELSE IF CrossBlocked \/ SameWeekEntry THEN result.status = CONFLICTED
        ELSE /\ result.status = DUE
             /\ result.priority_score = (IF query.pm_type = MONTHLY THEN 1000 ELSE 900)
             /\ result.days_overdue = 0

\* C6 witness: a never-completed Annual PM found DUE with priority 900.
C6_Witness ==
    /\ Asked /\ FlagSet /\ query.pm_type = ANNUAL
    /\ AgesOf(CountedAsAsked) = {}
    /\ parse_flexible(LastDateAsked) = None
    /\ result.status = DUE
    /\ result.priority_score = 900
    /\ result.reason.tag = "never_completed"

\* the reasons of the three kinds of DUE result
NeverTags == {"never_completed"}
OverdueTags == {"overdue", "annual_due_by_next_annual_date"}
JustDueTags == {"due_now", "due"}

\* C7 as stated: every never-completed score (1000, 900) is strictly greater
\* than every overdue score, and every overdue score is strictly greater
\* than every just-due score.
C7_Original ==
    (Asked /\ result.status = DUE) =>
        /\ result.reason.tag \in NeverTags => result.priority_score \in {1000, 900}
        /\ result.reason.tag \in OverdueTags =>
              /\ result.priority_score < 900
              /\ result.priority_score >= 500
        /\ result.reason.tag \in JustDueTags => result.priority_score < 500

\* C7 amended: the Monthly never-completed score 1000 is strictly greater
\* than every overdue score (500 to 999), and every overdue score is
\* strictly greater than every just-due score (at most 300); the Annual
\* never-completed score 900 is strictly greater than an overdue score
\* exactly when the PM is fewer than 40 days overdue.
C7_Bands ==
    (Asked /\ result.status = DUE) =>
        /\ result.reason.tag \in NeverTags =>
              result.priority_score = (IF query.pm_type = MONTHLY THEN 1000 ELSE 900)
        /\ result.reason.tag \in OverdueTags =>
              /\ result.priority_score >= 500
              /\ result.priority_score <= 999
              /\ result.priority_score < 900 <=> result.days_overdue < 40
        /\ result.reason.tag \in JustDueTags => result.priority_score <= 300
        /\ result.reason.tag \in NeverTags \cup OverdueTags \cup JustDueTags

\* C7 witness: an overdue Monthly PM whose score 999 is above the Annual
\* never-completed score.
C7_Witness ==
    /\ Asked /\ result.status = DUE
    /\ result.reason.tag = "overdue"
    /\ result.priority_score = 999
    /\ result.days_overdue >= 40

\* C10 as stated: for an Annual check with the flag set, no 'Scheduled'
\* entry of an earlier week and a parseable next-annual-PM date, the result
\* is NOT_DUE when the date is more than 7 days in the future, and DUE when
\* it lies between 30 days in the past and 7 days in the future, with
\* priority 500 + 10 * overdue_days and days_overdue = overdue_days, where
\* overdue_days is the number of whole days the date lies in the past, or 0.
C10_Original ==
    (Asked /\ query.pm_type = ANNUAL /\ FlagSet /\ ~PriorScheduled
           /\ NextAnnualDate # None) =>
        LET ahead == NextAnnualDate - now
            overdue_days == Max(0, TimedeltaDays(now, NextAnnualDate))
        IN  /\ ahead > 7 * TicksPerDay => result.status = NOT_DUE
            /\ (ahead >= -30 * TicksPerDay /\ ahead <= 7 * TicksPerDay) =>
                  /\ result.status = DUE
                  /\ result.priority_score = 500 + 10 * overdue_days
                  /\ result.days_overdue = overdue_days

-----------------------------------------------------------------------------
(* generate_assignments as a function of the tables: each item of the      *)
(* roster is drawn from a set of profiles that fix its row, its completion *)
(* records and its schedule entries                                        *)

\* the size of the roster and the largest max_assignments of a run
NumEquipment == 3
MaxAssignments == 3

GenProfiles ==
    {"monthly_never", "both_overdue", "annual_never", "annual_rebooked",
     "monthly_booked", "monthly_due_now", "inactive"}

ProfileRow(p) ==
    CASE p = "monthly_never" ->
            EquipmentRow("X", "", NullStr, NullStr, NullStr, "Active")
      [] p = "both_overdue" ->
            EquipmentRow("X", "X", IsoDaysAgo(40), IsoDaysAgo(380), NullStr, "Active")
      [] p = "annual_never" ->
            EquipmentRow("", "X", NullStr, TextStr, NullStr, "Active")
      [] p = "annual_rebooked" ->
            EquipmentRow("", "X", NullStr, NullStr, IsoDaysAgo(-3), "Active")
      [] p = "monthly_booked" ->
            EquipmentRow("X", "X", SlashDaysAgo(40), IsoDaysAgo(380), NullStr, "Active")
      [] p = "monthly_due_now" ->
            EquipmentRow("X", "", IsoDaysAgo(90), NullStr, NullStr, "Active")
      [] p = "inactive" ->
            EquipmentRow("X", "X", NullStr, NullStr, NullStr, "Inactive")
      [] p = "annual_by_date" ->
            EquipmentRow("", "X", NullStr, IsoDaysAgo(200), IsoDaysAgo(25), "Active")

ProfileCompletions(p, b) ==
    CASE p = "monthly_due_now" -> {CompletionRow(b, "Monthly", IsoDaysAgo(31), "Ann")}
      [] p = "both_overdue" -> {CompletionRow(b, "Monthly", IsoDaysAgo(40), "Bob")}
      [] OTHER -> {}

ProfileSchedules(p, b) ==
    CASE p = "annual_rebooked" ->
            {ScheduleRow(10 * b + 1, b, "Annual", ThisWeek, "Ann", "Scheduled")}
      [] p = "monthly_booked" ->
            {ScheduleRow(10 * b + 2, b, "Monthly", ThisWeek, "Bob", "Scheduled"),
             ScheduleRow(10 * b + 3, b, "Annual", PrevWeek, "Bob", "Completed")}
      [] OTHER -> {}

\* the dictionaries _load_priority_assets can leave in the service
GenPriorityMaps == {<<>>, (2 :> 1), (1 :> 2) @@ (3 :> 1)}

GenWeeks == {ThisWeek, NextWeek}

InitGen ==
    /\ now = Midnight(Today) + 1
    /\ \E profile \in [1 .. NumEquipment -> GenProfiles] :
          /\ equipment = [b \in 1 .. NumEquipment |-> ProfileRow(profile[b])]
          /\ pm_completions =
                UNION {ProfileCompletions(profile[b], b) : b \in 1 .. NumEquipment}
          /\ weekly_pm_schedules =
                UNION {ProfileSchedules(profile[b], b) : b \in 1 .. NumEquipment}
    /\ priority_map \in GenPriorityMaps
    /\ query = NoQuery
    /\ result = NoResult
    /\ run = NoRun

\* the record of a run of the generator: the sorted list and the slice of
\* it that is returned
RunOf(week, max_assignments, sorted) ==
    [done |-> TRUE, week_start |-> week, max_assignments |-> max_assignments,
     potential |-> sorted, assignments |-> Take(sorted, max_assignments)]

\* generate_assignments called on a generator whose repository has no
\* cache, with the Equipment objects of every row of the table
GenerateAssignments(week, max_assignments) ==
    /\ ~run.done
    /\ run' = RunOf(week, max_assignments,
                    sorted_potential(NewRepo, [b \in DOMAIN equipment |-> EquipmentOf(b)],
                                     Midnight(week)))
    /\ UNCHANGED <<now, equipment, priority_map, pm_completions,
                   weekly_pm_schedules, query, result>>

\* a run that also writes a 'Scheduled' entry for each assignment it returns
GenerateWeeklySchedule_persisting(week, max_pms) ==
    /\ ~run.done
    /\ run' = RunOf(week, max_pms,
                    sorted_potential(LoadedRepo(Midnight(week)),
                                     load_equipment_with_priority, Midnight(week)))
    /\ weekly_pm_schedules' = weekly_pm_schedules \cup
          {ScheduleRow(100 + i, run'.assignments[i].bfm_no, run'.assignments[i].pm_type,
                       week, "Ann", "Scheduled") : i \in 1 .. Len(run'.assignments)}
    /\ UNCHANGED <<now, equipment, priority_map, pm_completions, query, result>>

\* PMSchedulingService.generate_weekly_schedule, called by the handler of
\* the scheduling tab when no handler is running: the bulk loads, the
\* active equipment and the generator
GenerateWeeklySchedule(week, max_pms) ==
    /\ ~run.done
    /\ run' = RunOf(week, max_pms,
                    sorted_potential(LoadedRepo(Midnight(week)),
                                     load_equipment_with_priority, Midnight(week)))
    /\ UNCHANGED <<now, equipment, priority_map, pm_completions,
                   weekly_pm_schedules, query, result>>

NextGen ==
    \E week \in GenWeeks, max \in 0 .. MaxAssignments :
        \/ GenerateAssignments(week, max)
        \/ GenerateWeeklySchedule(week, max)

SpecGen == InitGen /\ [][NextGen]_vars

-----------------------------------------------------------------------------
(* What the tables say about the assignments of the last run               *)

\* the priority class of the equipment of an assignment
ClassOf(a) == DictGet(priority_map, a.bfm_no, DefaultPriority)

Returned == 1 .. Len(run.assignments)

\* an entry of the same equipment and PM type is already in the week of the run
BookedInWeek(a) ==
    \E r \in weekly_pm_schedules :
        /\ r.bfm_equipment_no = a.bfm_no
        /\ r.pm_type = a.pm_type
        /\ r.week_start_date = run.week_start

\* C3: a run returns at most max_assignments assignments, and of any two
\* returned assignments the earlier one has the lower priority class or,
\* in the same class, a priority_score that is not lower; so every class
\* 1, 2 or 3 assignment comes before every class 99 assignment.
C3_CapAndOrdering ==
    run.done =>
        /\ Len(run.assignments) <= run.max_assignments
        /\ \A i \in Returned, j \in Returned :
              i < j =>
                 \/ ClassOf(run.assignments[i]) < ClassOf(run.assignments[j])
                 \/ /\ ClassOf(run.assignments[i]) = ClassOf(run.assignments[j])
                    /\ run.assignments[i].priority_score
                          >= run.assignments[j].priority_score
        /\ \A i \in Returned, j \in Returned :
              (/\ ClassOf(run.assignments[i]) \in {1, 2, 3}
               /\ ClassOf(run.assignments[j]) = DefaultPriority) => i < j

\* C3 witness: a run that cut the list to max_assignments and returned a
\* class 1, 2 or 3 assignment before a class 99 assignment of higher score.
C3_Witness ==
    /\ run.done
    /\ Len(run.potential) > run.max_assignments
    /\ Len(run.assignments) = run.max_assignments
    /\ \E i \in Returned, j \in Returned :
          /\ i < j
          /\ ClassOf(run.assignments[i]) \in {1, 2, 3}
          /\ ClassOf(run.assignments[j]) = DefaultPriority
          /\ run.assignments[i].priority_score < run.assignments[j].priority_score

\* C4: in the output of a run no equipment code appears twice, neither
\* with a Monthly and an Annual assignment nor twice with the same PM type.
C4_MutualExclusion ==
    run.done =>
        \A i \in Returned, j \in Returned :
            run.assignments[i].bfm_no = run.assignments[j].bfm_no => i = j

\* C4 witness: a run returned the Monthly assignment of an equipment item
\* whose Annual PM check, taken alone, is DUE as well.
C4_Witness ==
    /\ run.done
    /\ \E i \in Returned :
          LET a == run.assignments[i]
          IN  /\ a.pm_type = MONTHLY
              /\ equipment[a.bfm_no].annual_pm = "X"
              /\ check_eligibility(NewRepo, EquipmentOf(a.bfm_no), ANNUAL,
                                   Midnight(run.week_start)).status = DUE

\* C9 as stated: a run for a week never returns an (equipment, PM type)
\* pair that already has a weekly-schedule entry in that week, for Monthly
\* and for Annual alike.
C9_NoDoubleBooking ==
    run.done => \A i \in Returned : ~BookedInWeek(run.assignments[i])

-----------------------------------------------------------------------------
(* The scheduler in use: runs of the scheduling tab, the caller's           *)
(* persistence of their output, completions entered in the completion tab  *)
(* and the passing of weeks                                                *)

\* the weeks the clock advances, and the rows the two written tables hold
MaxWeeks == 1
MaxRows == 3

weekly_pm_target == 130

Technicians == {"Ann", "Bob"}

\* the rows in pm_completions and weekly_pm_schedules
NumRows == Cardinality(pm_completions) + Cardinality(weekly_pm_schedules)

\* the Mondays a run is asked for
SchedWeeks == {ThisWeek, NextWeek}

\* the roster of the system: equipment 1 with both PM types and no
\* history, equipment 2 with an Annual PM and a next-annual-PM date
SystemEquipment ==
    (1 :> EquipmentRow("X", "X", NullStr, NullStr, NullStr, "Active")) @@
    (2 :> EquipmentRow("", "X", NullStr, IsoDaysAgo(360), IsoDaysAgo(-5), "Active"))

Init ==
    /\ now = Midnight(Today) + 1
    /\ equipment = SystemEquipment
    /\ priority_map = (2 :> 1)
    /\ pm_completions = {}
    /\ weekly_pm_schedules = {}
    /\ query = NoQuery
    /\ result = NoResult
    /\ run = NoRun

\* the handler of the scheduling tab returns and the run is dropped
FinishRun ==
    /\ run.done
    /\ run' = NoRun
    /\ UNCHANGED <<now, equipment, priority_map, pm_completions,
                   weekly_pm_schedules, query, result>>

\* the caller writes the assignments of the run to weekly_pm_schedules, one
\* 'Scheduled' entry of the week of the run each, assigned to a technician
PersistSchedule(technician) ==
    LET first_id == Cardinality(weekly_pm_schedules) + 1
        rows == {ScheduleRow(first_id + i - 1, run.assignments[i].bfm_no,
                             run.assignments[i].pm_type, run.week_start,
                             technician, "Scheduled") : i \in Returned}
    IN  /\ run.done
        /\ NumRows + Len(run.assignments) <= MaxRows
        /\ weekly_pm_schedules' = weekly_pm_schedules \cup rows
        /\ run' = NoRun
        /\ UNCHANGED <<now, equipment, priority_map, pm_completions, query, result>>

\* the equipment row after the UPDATE of process_normal_pm_completion
CompletedEquipment(row, pm_type, completion_date) ==
    IF pm_type = "Monthly"
    THEN [row EXCEPT !.last_monthly_pm = completion_date]
    ELSE IF pm_type = "Annual"
    THEN [row EXCEPT !.last_annual_pm = completion_date,
                     !.next_annual_pm =
                         Strftime(parse_flexible(completion_date)
                                  + AnnualIdealFrequency * TicksPerDay)]
    ELSE row

\* the subquery of the UPDATE without AND assigned_technician = %s
EarliestScheduled_any_technician(bfm_no, pm_type, technician) ==
    LET matching == {r \in weekly_pm_schedules :
                        /\ r.bfm_equipment_no = bfm_no
                        /\ r.pm_type = pm_type
                        /\ r.status = "Scheduled"}
    IN  {r \in matching : \A q \in matching : r.scheduled_date <= q.scheduled_date}

\* the entries the UPDATE of weekly_pm_schedules can pick: the 'Scheduled'
\* entries of the equipment, PM type and technician with the earliest
\* scheduled_date
EarliestScheduled(bfm_no, pm_type, technician) ==
    LET matching == {r \in weekly_pm_schedules :
                        /\ r.bfm_equipment_no = bfm_no
                        /\ r.pm_type = pm_type
                        /\ r.assigned_technician = technician
                        /\ r.status = "Scheduled"}
    IN  {r \in matching : \A q \in matching : r.scheduled_date <= q.scheduled_date}

\* submit_pm_completion with the due date and next annual date left blank,
\* and process_normal_pm_completion
SubmitCompletion(bfm_no, pm_type, technician) ==
    LET completion_date == Strftime(now)
        earliest == EarliestScheduled(bfm_no, pm_type, technician)
    IN  /\ ~run.done
        /\ NumRows < MaxRows
        /\ pm_completions' = pm_completions \cup
              {CompletionRow(bfm_no, pm_type, completion_date, technician)}
        /\ equipment' = [equipment EXCEPT
              ![bfm_no] = CompletedEquipment(@, pm_type, completion_date)]
        /\ IF earliest = {} THEN UNCHANGED weekly_pm_schedules
           ELSE \E r \in earliest :
                   weekly_pm_schedules' =
                       (weekly_pm_schedules \ {r}) \cup {[r EXCEPT !.status = "Completed"]}
        /\ UNCHANGED <<now, priority_map, query, result, run>>

\* a week passes
AdvanceClock ==
    /\ now + 7 * TicksPerDay < Midnight(Today + 7 * MaxWeeks + 1)
    /\ now' = now + 7 * TicksPerDay
    /\ UNCHANGED <<equipment, priority_map, pm_completions, weekly_pm_schedules,
                   query, result, run>>

Next ==
    \/ \E week \in SchedWeeks : GenerateWeeklySchedule(week, weekly_pm_target)
    \/ \E technician \in Technicians : PersistSchedule(technician)
    \/ FinishRun
    \/ \E bfm_no \in DOMAIN equipment, pm_type \in PMType, technician \in Technicians :
          SubmitCompletion(bfm_no, pm_type, technician)
    \/ AdvanceClock

Spec == Init /\ [][Next]_vars

-----------------------------------------------------------------------------
(* The entries the caller has persisted and the runs after them            *)

\* a list of assignments has one for the equipment and PM type of an entry
Assigns(assignments, r) ==
    \E i \in 1 .. Len(assignments) :
        /\ assignments[i].bfm_no = r.bfm_equipment_no
        /\ assignments[i].pm_type = r.pm_type

\* the eligibility a run for week computes for the equipment and PM type
\* of an entry
EligibilityIn(week, r) ==
    check_eligibility(LoadedRepo(Midnight(week)), EquipmentOf(r.bfm_equipment_no),
                      r.pm_type, Midnight(week))

\* C8: as long as a persisted weekly-schedule entry of week W has status
\* 'Scheduled', every run for a later week finds its equipment and PM type
\* CONFLICTED and leaves the pair out of its output, in every state up to
\* the one where the status of the entry changes.
C8_FeedbackLoop ==
    \A r \in weekly_pm_schedules :
        r.status = "Scheduled" =>
            \A week \in SchedWeeks :
                week > r.week_start_date =>
                    /\ EligibilityIn(week, r).status = CONFLICTED
                    /\ ~Assigns(generate_weekly_schedule(Midnight(week),
                                                         weekly_pm_target), r)
                    /\ (run.done /\ run.week_start = week) =>
                           ~Assigns(run.assignments, r)

\* C8 witness: a run for a later week is done while a persisted entry is
\* still 'Scheduled': the pair is left out although the rules that follow
\* the prior-week check would make it DUE, and another pair is returned.
C8_Witness ==
    /\ run.done
    /\ run.assignments # <<>>
    /\ \E r \in weekly_pm_schedules :
          /\ r.status = "Scheduled"
          /\ r.week_start_date < run.week_start
          /\ ~Assigns(run.assignments, r)
          /\ check_next_annual(LoadedRepo(Midnight(run.week_start)),
                               EquipmentOf(r.bfm_equipment_no), r.pm_type,
                               Midnight(run.week_start)).status = DUE

-----------------------------------------------------------------------------
(* Further claims about check_eligibility, under SpecElig *)

\* the status, priority_score and days_overdue of a result
Outcome(r) == <<r.status, r.priority_score, r.days_overdue>>

\* what the rules other than the next-annual-date rule give for the call:
\* nothing in it reads the next-annual-PM date
WithoutNextAnnual ==
    IF ~FlagSet
    THEN PMEligibilityResult(NOT_DUE, Reason("", "", 0, 0, ""), 0, 0)
    ELSE IF PriorScheduled
    THEN PMEligibilityResult(CONFLICTED, Reason("", "", 0, 0, ""), 0, 0)
    ELSE check_after_override(NewRepo, EquipmentOf(query.bfm_no), query.pm_type,
                              Midnight(query.week_start))

\* the next-annual-PM date lies more than 30 days in the past
NextAnnualLongPast ==
    /\ NextAnnualDate # None
    /\ now - NextAnnualDate > 30 * TicksPerDay

\* C11: an Annual check of equipment whose next-annual-PM date is more than
\* 30 days in the past returns the status, priority_score and days_overdue
\* it returns with no next-annual-PM date at all: in both cases the result
\* is the one the other rules give, which does not depend on that date.
C11_FallThrough ==
    (Asked /\ query.pm_type = ANNUAL
           /\ (NextAnnualLongPast \/ AskedRow.next_annual_pm = NullStr)) =>
        Outcome(result) = Outcome(WithoutNextAnnual)

\* C11 witness: with a next-annual-PM date 45 days in the past the Annual
\* check reaches the generic due-date logic and finds the PM overdue.
C11_Witness ==
    /\ Asked /\ query.pm_type = ANNUAL /\ FlagSet /\ ~PriorScheduled
    /\ NextAnnualLongPast
    /\ AskedRow.next_annual_pm = IsoDaysAgo(45)
    /\ result.status = DUE
    /\ result.reason.tag = "overdue"

\* no rule before the cross-type rule decides the call: the flag is set, no
\* 'Scheduled' entry of an earlier week, the next-annual date does not decide,
\* and no completion counted as the type asked about is inside its interval
ReachesCrossRule ==
    /\ Asked /\ FlagSet /\ ~PriorScheduled /\ ~OverrideDecides /\ ~RecentCounted

\* the result is the cross-type rule's CONFLICTED
BlockedByCrossRule ==
    /\ result.status = CONFLICTED
    /\ result.reason.tag = (IF query.pm_type = ANNUAL THEN "annual_blocked"
                                                       ELSE "monthly_blocked")

\* C12: when no earlier rule fires, an Annual check is CONFLICTED if the
\* latest Monthly completion is fewer than 7 days old and a Monthly check is
\* CONFLICTED if the latest completion loaded as Annual is fewer than 30 days
\* old; with the latest other-type completion at or beyond the threshold, or
\* absent, the result is never the cross-type rule's CONFLICTED.
C12_CrossTypeConflict ==
    ReachesCrossRule => (BlockedByCrossRule <=> CrossBlocked)

\* a Monthly check blocked by an Annual completion 20 days old
C12_Witness ==
    /\ ReachesCrossRule /\ BlockedByCrossRule
    /\ query.pm_type = MONTHLY
    /\ Latest(AgesOf({"Annual"})) = 20

\* the whole days since the last completion of the type asked about: the
\* latest completion record counted as that type in the window, else the
\* last-completed date of the equipment row; None when there is neither
LastCompletionAge ==
    IF AgesOf(CountedAsAsked) # {} THEN Latest(AgesOf(CountedAsAsked))
    ELSE IF parse_flexible(LastDateAsked) # None
    THEN TimedeltaDays(now, parse_flexible(LastDateAsked))
    ELSE None

\* the flag is set, no schedule entry of the equipment and type in an earlier
\* or the target week, the next-annual date does not decide and no
\* completion of the other type blocks
NothingElseDecides ==
    /\ Asked /\ FlagSet /\ ~PriorScheduled /\ ~SameWeekEntry
    /\ ~OverrideDecides /\ ~CrossBlocked

\* the result is NOT_DUE with the days remaining until the minimum interval
NotDueFor(days) ==
    /\ result.status = NOT_DUE
    /\ result.reason.tag = "not_due_for"
    /\ result.reason.n = days
    /\ result.priority_score = 0

\* C13 as stated: whenever the last completion of the type asked about was
\* d days ago with d < 30 (Monthly) or d < 365 (Annual) and nothing else
\* decides, the result is NOT_DUE and the reason gives 30 - d (365 - d) days.
C13_Original ==
    (NothingElseDecides /\ LastCompletionAge # None
        /\ LastCompletionAge < MinIntervalAsked) =>
        NotDueFor(MinIntervalAsked - LastCompletionAge)

\* C13: when nothing else decides and the last completion of the type asked
\* about was d days ago with d below the minimum interval, the result is
\* NOT_DUE with 30 - d (365 - d) days remaining if that completion is known
\* from the equipment row's last-completed date only, and RECENTLY_COMPLETED
\* if it is a completion record of the window.
C13_NotYetDue ==
    (NothingElseDecides /\ LastCompletionAge # None
        /\ LastCompletionAge < MinIntervalAsked) =>
        IF AgesOf(CountedAsAsked) = {}
        THEN NotDueFor(MinIntervalAsked - LastCompletionAge)
        ELSE /\ result.status = RECENTLY_COMPLETED
             /\ result.reason.n = LastCompletionAge

\* a Monthly check 12 days after the last-completed date of the equipment row
C13_Witness ==
    /\ NothingElseDecides /\ query.pm_type = MONTHLY
    /\ AgesOf(CountedAsAsked) = {}
    /\ LastCompletionAge = 12
    /\ NotDueFor(18)

\* the generic due-date check is reached: nothing before it decides
ReachesDueDateCheck == NothingElseDecides /\ ~RecentCounted

IdealAsked == IF query.pm_type = MONTHLY THEN MonthlyIdealFrequency
              ELSE AnnualIdealFrequency

\* C14: when the generic due-date check is reached with a last completion n
\* days old and n exceeds the ideal frequency (30 Monthly, 365 Annual), the
\* result is DUE with days_overdue = n - ideal and priority_score =
\* min(500 + 10 * days_overdue, 999).
C14_GenericOverdue ==
    (ReachesDueDateCheck /\ LastCompletionAge # None
        /\ LastCompletionAge > IdealAsked) =>
        /\ result.status = DUE
        /\ result.days_overdue = LastCompletionAge - IdealAsked
        /\ result.priority_score =
              Min(500 + 10 * (LastCompletionAge - IdealAsked), 999)

\* a Monthly completion 40 days ago gives days_overdue 10 and score 600
C14_Witness ==
    /\ ReachesDueDateCheck /\ query.pm_type = MONTHLY
    /\ AgesOf({"Monthly"}) = {40}
    /\ result.status = DUE /\ result.days_overdue = 10
    /\ result.priority_score = 600

\* C19: check_eligibility returns one of DUE, NOT_DUE, RECENTLY_COMPLETED
\* and CONFLICTED; the priority_score is positive only when the status is
\* DUE, and every result that is not DUE has priority_score 0 and
\* days_overdue 0.
C19_WellDefined ==
    Asked =>
        /\ result.status \in PMStatus
        /\ result.priority_score > 0 => result.status = DUE
        /\ result.status # DUE =>
              result.priority_score = 0 /\ result.days_overdue = 0
        /\ result.status = DUE => result.priority_score > 0

\* an Annual check the next-annual date puts off: NOT_DUE, no score
C19_Witness ==
    /\ Asked /\ FlagSet /\ ~PriorScheduled
    /\ query.pm_type = ANNUAL
    /\ result.status = NOT_DUE
    /\ result.reason.tag = "annual_scheduled_for"
    /\ result.priority_score = 0 /\ result.days_overdue = 0

\* C28: a DUE result of the generic due-date check that is neither
\* never-completed nor overdue occurs only when the days since the last
\* completion equal the ideal frequency (30 Monthly, 365 Annual) and has
\* priority_score exactly 300; no result has the fallback score 200 or a
\* score from 200 to 299.
C28_DueNowBand ==
    (Asked /\ result.status = DUE) =>
        /\ result.reason.tag \notin NeverTags \cup OverdueTags =>
              /\ result.reason.tag = "due_now"
              /\ LastCompletionAge = IdealAsked
              /\ result.priority_score = DueNowBase
              /\ result.days_overdue = 0
        /\ result.priority_score \notin DueFallback .. DueNowBase - 1

\* a Monthly check exactly 30 days after the last completion record
C28_Witness ==
    /\ ReachesDueDateCheck /\ query.pm_type = MONTHLY
    /\ AgesOf({"Monthly"}) = {30}
    /\ result.status = DUE /\ result.reason.tag = "due_now"
    /\ result.priority_score = 300

\* C29: a completion row whose type is neither 'Monthly' nor 'Annual' is
\* loaded as an Annual completion, by the per-item query and by the bulk
\* load: when the latest such row is less than 365 days old an Annual check
\* that reaches the recent-completion rule is RECENTLY_COMPLETED, and when it
\* is less than 30 days old a Monthly check that reaches the cross-type rule
\* is CONFLICTED by it.
C29_OtherTypesAsAnnual ==
    (Asked /\ AgesOf(RowTypes \ {"Monthly", "Annual"}) # {}) =>
        /\ (/\ query.pm_type = ANNUAL /\ FlagSet /\ ~PriorScheduled /\ ~OverrideDecides
            /\ Latest(AgesOf(RowTypes \ {"Monthly", "Annual"})) < AnnualMinInterval) =>
               result.status = RECENTLY_COMPLETED
        /\ (/\ query.pm_type = MONTHLY /\ ReachesCrossRule
            /\ Latest(AgesOf(RowTypes \ {"Monthly", "Annual"})) < MonthlyAfterAnnualDays) =>
               BlockedByCrossRule
        /\ \A repo \in {NewRepo, LoadedRepo(Midnight(query.week_start))} :
               Len(OfType(get_recent_completions(repo, query.bfm_no, CompletionWindowDays),
                          ANNUAL))
                   = Cardinality(AgesOf(RowTypes \ {"Monthly"}))

\* an Annual check that a 'Six Month' completion 20 days old makes
\* RECENTLY_COMPLETED, with no 'Annual' completion row
C29_Witness ==
    /\ Asked /\ query.pm_type = ANNUAL /\ FlagSet /\ ~PriorScheduled /\ ~OverrideDecides
    /\ AgesOf({"Annual"}) = {}
    /\ AgesOf({"Six Month"}) = {20}
    /\ result.status = RECENTLY_COMPLETED
    /\ result.reason.n = 20

\* the weekly schedule has no entry of the equipment asked about
NoEntries == \A r \in weekly_pm_schedules : r.bfm_equipment_no # query.bfm_no

\* the result agrees with r in status, priority score and days overdue
SameVerdict(r) ==
    /\ r.status = result.status
    /\ r.priority_score = result.priority_score
    /\ r.days_overdue = result.days_overdue

\* C30: with the clock, the equipment row, the completions and the next
\* annual date fixed and no weekly-schedule entry of the equipment,
\* check_eligibility gives the same status, priority score and days overdue
\* for every target week, with and without the caches.
C30_WeekIndependent ==
    (Asked /\ NoEntries) =>
        \A week \in EligWeeks :
            /\ SameVerdict(check_eligibility(NewRepo, EquipmentOf(query.bfm_no),
                                             query.pm_type, Midnight(week)))
            /\ SameVerdict(check_eligibility(LoadedRepo(Midnight(week)),
                                             EquipmentOf(query.bfm_no),
                                             query.pm_type, Midnight(week)))

\* an Annual check for next week, decided DUE by a next annual date 10 days
\* past, of an equipment with no weekly-schedule entry
C30_Witness ==
    /\ Asked /\ NoEntries
    /\ query.pm_type = ANNUAL /\ query.week_start = NextWeek
    /\ result.status = DUE
    /\ result.reason.tag = "annual_due_by_next_annual_date"
    /\ result.days_overdue = 10

-----------------------------------------------------------------------------
(* Further claims about generate_assignments, under SpecGen *)

\* the flag of the equipment row for the PM type of an assignment is set
FlagOf(a) ==
    IF a.pm_type = MONTHLY THEN equipment[a.bfm_no].monthly_pm = "X"
    ELSE equipment[a.bfm_no].annual_pm = "X"

\* an eligibility result is DUE with the score and the reason the assignment carries
Matches(eligibility, a) ==
    /\ eligibility.status = DUE
    /\ eligibility.priority_score = a.priority_score
    /\ eligibility.reason = a.reason

\* check_eligibility on the repository repo is DUE for the equipment and PM
\* type of the assignment, with its score and reason
DueAs(repo, a) ==
    Matches(check_eligibility(repo, EquipmentOf(a.bfm_no), a.pm_type,
                              Midnight(run.week_start)), a)

\* C15: every assignment a run returns is for an equipment item whose
\* status is 'Active' and whose flag for the PM type is set, and
\* check_eligibility of the run, with or without the bulk-loaded caches, is
\* DUE for it with the same priority_score and reason.
C15_OutputSoundness ==
    run.done =>
        \A i \in Returned :
            /\ equipment[run.assignments[i].bfm_no].status = "Active"
            /\ FlagOf(run.assignments[i])
            /\ DueAs(NewRepo, run.assignments[i])
            /\ DueAs(LoadedRepo(Midnight(run.week_start)), run.assignments[i])

\* a run over a roster with an item that is not 'Active' and has both flags
\* set returned an assignment
C15_Witness ==
    /\ run.done
    /\ Returned # {}
    /\ \E b \in DOMAIN equipment :
          /\ equipment[b].status # "Active"
          /\ equipment[b].monthly_pm = "X"
          /\ \A i \in Returned : run.assignments[i].bfm_no # b
    /\ Len(run.potential) <= run.max_assignments

\* check_eligibility of the run for an equipment item and a PM type
EligibilityOf(b, pm_type) ==
    check_eligibility(NewRepo, EquipmentOf(b), pm_type, Midnight(run.week_start))

\* the loop of generate_assignments collects the pair: the item is 'Active',
\* the flag is set, the check is DUE and, for Annual, no Monthly assignment
\* of the item was collected
Collected(b, pm_type) ==
    /\ equipment[b].status = "Active"
    /\ IF pm_type = MONTHLY THEN equipment[b].monthly_pm = "X"
       ELSE equipment[b].annual_pm = "X"
    /\ EligibilityOf(b, pm_type).status = DUE
    /\ pm_type = ANNUAL =>
          ~(equipment[b].monthly_pm = "X" /\ EligibilityOf(b, MONTHLY).status = DUE)

DueCandidates == {c \in (DOMAIN equipment) \X PMType : Collected(c[1], c[2])}

\* the pair is among the assignments the run returned
IsReturned(c) ==
    \E i \in Returned :
        run.assignments[i].bfm_no = c[1] /\ run.assignments[i].pm_type = c[2]

\* the candidate sorts strictly before the assignment: lower priority
\* class, or the same class and a higher score
StrictlyBefore(c, a) ==
    \/ DictGet(priority_map, c[1], DefaultPriority) < ClassOf(a)
    \/ /\ DictGet(priority_map, c[1], DefaultPriority) = ClassOf(a)
       /\ EligibilityOf(c[1], c[2]).priority_score > a.priority_score

\* C16: a run returns exactly min(max_assignments, number of DUE candidates
\* collected) assignments, they are the leading prefix of the sorted
\* candidate list, and no candidate that was cut sorts strictly before a
\* returned assignment.
C16_Truncation ==
    run.done =>
        /\ Len(run.assignments) = Min(run.max_assignments, Cardinality(DueCandidates))
        /\ Len(run.potential) = Cardinality(DueCandidates)
        /\ run.assignments = SubSeq(run.potential, 1, Len(run.assignments))
        /\ \A c \in DueCandidates :
              ~IsReturned(c) =>
                  \A i \in Returned : ~StrictlyBefore(c, run.assignments[i])

\* a run that cut a candidate of the same class as a returned assignment
\* and of lower score
C16_Witness ==
    /\ run.done
    /\ Len(run.assignments) = run.max_assignments
    /\ \E c \in DueCandidates, i \in Returned :
          /\ ~IsReturned(c)
          /\ DictGet(priority_map, c[1], DefaultPriority) = ClassOf(run.assignments[i])
          /\ EligibilityOf(c[1], c[2]).priority_score < run.assignments[i].priority_score

-----------------------------------------------------------------------------
(* What a run leaves alone, under Spec *)

\* C20: a step that is a run of generate_weekly_schedule leaves the
\* equipment, completion and weekly-schedule tables, and the priority map,
\* as they are; it changes the record of the run only.
C20_ReadOnlyRun ==
    [][(~run.done /\ run'.done) =>
           /\ equipment' = equipment
           /\ pm_completions' = pm_completions
           /\ weekly_pm_schedules' = weekly_pm_schedules
           /\ priority_map' = priority_map]_vars

\* a run that returned assignments with rows in both tables
C20_Witness ==
    /\ run.done
    /\ run.assignments # <<>>
    /\ pm_completions # {}
    /\ weekly_pm_schedules # {}

StrictlyIncreasingWeeks ==
    \A r, q \in weekly_pm_schedules :
        r.id < q.id =>
            \/ r.week_start_date < q.week_start_date
            \/ /\ r.week_start_date = q.week_start_date
               /\ <<r.bfm_equipment_no, r.pm_type>> # <<q.bfm_equipment_no, q.pm_type>>

\* C26: when the outputs of the runs were persisted as 'Scheduled' entries
\* for strictly increasing target weeks, with completions in between, no
\* equipment and PM type has more than one entry with status 'Scheduled'.
C26_OneOutstanding ==
    StrictlyIncreasingWeeks =>
        \A r, q \in weekly_pm_schedules :
            (/\ r.bfm_equipment_no = q.bfm_equipment_no
             /\ r.pm_type = q.pm_type
             /\ r.status = "Scheduled" /\ q.status = "Scheduled") => r = q

\* the run for next week persisted after the run for this week, whose
\* Monthly entry of equipment 1 is still 'Scheduled'
C26_Witness ==
    /\ StrictlyIncreasingWeeks
    /\ \E r, q \in weekly_pm_schedules :
          /\ r.id < q.id
          /\ r.week_start_date = ThisWeek /\ q.week_start_date = NextWeek
          /\ r.bfm_equipment_no = 1 /\ r.pm_type = "Monthly" /\ r.status = "Scheduled"
          /\ q.bfm_equipment_no = 1 /\ q.pm_type = "Annual" /\ q.status = "Scheduled"

-----------------------------------------------------------------------------
(* Runs as time passes and the tables stay as they are *)

RollProfiles == {"monthly_never", "both_overdue", "monthly_due_now", "annual_by_date"}

InitRoll ==
    /\ now = Midnight(Today) + 1
    /\ \E profile \in [1 .. NumEquipment -> RollProfiles] :
          /\ equipment = [b \in 1 .. NumEquipment |-> ProfileRow(profile[b])]
          /\ pm_completions =
                UNION {ProfileCompletions(profile[b], b) : b \in 1 .. NumEquipment}
          /\ weekly_pm_schedules =
                UNION {ProfileSchedules(profile[b], b) : b \in 1 .. NumEquipment}
    /\ priority_map \in GenPriorityMaps
    /\ query = NoQuery
    /\ result = NoResult
    /\ run = NoRun

\* one run with a cap, and the clock; nothing is written to the tables
NextRoll ==
    \/ \E week \in GenWeeks, max \in 0 .. MaxAssignments :
          GenerateWeeklySchedule(week, max)
    \/ AdvanceClock

SpecRoll == InitRoll /\ [][NextRoll]_vars

\* the pairs the run found DUE and max_assignments cut from its output
CutByCap ==
    {<<run.potential[i].bfm_no, run.potential[i].pm_type>> :
        i \in Len(run.assignments) + 1 .. Len(run.potential)}

\* the status check_eligibility gives the pair in a run for week at the
\* present clock
StatusIn(week, c) ==
    check_eligibility(LoadedRepo(Midnight(week)), EquipmentOf(c[1]), c[2],
                      Midnight(week)).status

\* C17 as stated, in its weaker part: a pair that was DUE in a run and cut
\* by max_assignments, with the tables unchanged since, is never NOT_DUE or
\* RECENTLY_COMPLETED in a run for the same or a later week at a later clock.
C17_RollForward ==
    run.done =>
        \A c \in CutByCap, week \in GenWeeks :
            week >= run.week_start =>
                StatusIn(week, c) \notin {NOT_DUE, RECENTLY_COMPLETED}

-----------------------------------------------------------------------------
(* DateParser.parse_flexible as a function of its input *)

\* the values of the fields of the date strings, their separators and the
\* field written with four digits
FirstFields == {1, 12, 13, 31, 999, 2024, 2025}
SecondFields == {1, 2, 12, 13, 29, 30, 31}
ThirdFields == {1, 29, 31, 999, 2025}
Separators == {"-", "/"}
WideFields == {0, 1, 3}

ParseInputs ==
    {NullStr, EmptyStr, TextStr, NotAStr} \cup
    {PaddedDateStr(sep, wide, a, b, c) :
        sep \in Separators, wide \in WideFields,
        a \in FirstFields, b \in SecondFields, c \in ThirdFields}

NotParsed == [date |-> None, formatted |-> NullStr, reparsed |-> None, step |-> 0]

InitParse ==
    /\ now = Midnight(Today)
    /\ equipment = <<>>
    /\ priority_map = <<>>
    /\ pm_completions = {}
    /\ weekly_pm_schedules = {}
    /\ query \in [date_string : ParseInputs, pads_year : BOOLEAN]
    /\ result = NotParsed
    /\ run = NoRun

\* parse_flexible(date_string)
ParseFlexible ==
    /\ result.step = 0
    /\ result' = [result EXCEPT !.date = parse_flexible(query.date_string),
                                !.step = 1]
    /\ UNCHANGED <<now, equipment, priority_map, pm_completions,
                   weekly_pm_schedules, query, run>>

\* the date it returned formatted with '%Y-%m-%d' and parsed again
FormatAndParse ==
    /\ result.step = 1
    /\ result.date # None
    /\ result' = [result EXCEPT
                     !.formatted = strftime_on(query.pads_year, result.date),
                     !.reparsed = parse_flexible(
                                      strftime_on(query.pads_year, result.date)),
                     !.step = 2]
    /\ UNCHANGED <<now, equipment, priority_map, pm_completions,
                   weekly_pm_schedules, query, run>>

NextParse == ParseFlexible \/ FormatAndParse

SpecParse == InitParse /\ [][NextParse]_vars

\* the year of the date parse_flexible returned
YearParsed == FromOrdinal(DateOf(result.date))[1]

\* the input is null, empty, not a string, or a string no format matches:
\* free text, or three fields none of which can be a month
Unparseable ==
    \/ query.date_string.kind # "date"
    \/ /\ query.date_string.a \notin 1 .. 12
       /\ query.date_string.b \notin 1 .. 12

\* null, empty or unparseable input gives None
Silent == (result.step >= 1 /\ Unparseable) => result.date = None

\* C18 as stated: every date parse_flexible returns, formatted as %Y-%m-%d
\* and parsed again, gives an equal date; null, empty or unparseable input
\* gives None.
C18_Original ==
    /\ result.step = 2 => result.reparsed = result.date
    /\ Silent

\* C18: every date of a year from 1000 on that parse_flexible returns, and
\* every date where strftime writes the year with leading zeros, formatted
\* as %Y-%m-%d and parsed again gives an equal date; a date of a year below
\* 1000 formatted without leading zeros parses to None; null, empty or
\* unparseable input gives None.
C18_RoundTrip ==
    /\ result.step = 2 =>
          IF YearParsed >= 1000 \/ query.pads_year
          THEN result.reparsed = result.date
          ELSE result.reparsed = None
    /\ Silent

\* a day-first slash date parsed, formatted and parsed again to the same date
C18_Witness ==
    /\ result.step = 2
    /\ query.date_string.sep = "/" /\ query.date_string.a = 13
    /\ result.formatted = DateStr("-", 2025, query.date_string.b, 13)
    /\ result.reparsed = result.date

\* datetime.strptime for a format of %m, %d and %y in the order `order`: the
\* year field is two digits, 69 to 99 read as 19yy and 0 to 68 as 20yy; a
\* field below 10 stands for one digit, which %y does not match
strptime_short_year(s, sep, order) ==
    LET m == IF order = "mdY" THEN s.a ELSE s.b
        d == IF order = "mdY" THEN s.b ELSE s.a
        y == IF s.c >= 69 THEN 1900 + s.c ELSE 2000 + s.c
    IN  IF /\ s.kind = "date"
           /\ s.sep = sep
           /\ s.c \in 10 .. 99 /\ s.wide # 3
           /\ IsShortField(s, IF order = "mdY" THEN 1 ELSE 2, m) /\ m <= 12
           /\ IsShortField(s, IF order = "mdY" THEN 2 ELSE 1, d)
           /\ d <= DaysInMonth(y, m)
        THEN Midnight(ToOrdinal(y, m, d))
        ELSE None

\* the first successful parse with %Y-%m-%d, %m/%d/%Y, %m/%d/%y, %m-%d-%Y,
\* %m-%d-%y, %d/%m/%Y, %d/%m/%y, as DateStandardizer.parse_date_flexible
\* tries them; None when none matches
seven_formats_parse(s) ==
    IF ~Truthy(s) THEN None
    ELSE IF Strptime(s, "-", "Ymd") # None THEN Strptime(s, "-", "Ymd")
    ELSE IF Strptime(s, "/", "mdY") # None THEN Strptime(s, "/", "mdY")
    ELSE IF strptime_short_year(s, "/", "mdY") # None
    THEN strptime_short_year(s, "/", "mdY")
    ELSE IF Strptime(s, "-", "mdY") # None THEN Strptime(s, "-", "mdY")
    ELSE IF strptime_short_year(s, "-", "mdY") # None
    THEN strptime_short_year(s, "-", "mdY")
    ELSE IF Strptime(s, "/", "dmY") # None THEN Strptime(s, "/", "dmY")
    ELSE strptime_short_year(s, "/", "dmY")

\* C23 as stated: parse_flexible returns what the first matching format of
\* %Y-%m-%d, %m/%d/%Y, %m/%d/%y, %m-%d-%Y, %m-%d-%y, %d/%m/%Y, %d/%m/%y
\* gives, so a date with a two-digit year is accepted, and None when none
\* of the seven matches.
C23_Original ==
    result.step >= 1 => result.date = seven_formats_parse(query.date_string)

-----------------------------------------------------------------------------
(* The repository with and without its caches, over the same tables *)

\* n 'Scheduled' Monthly entries of equipment 1 in the n weeks before this week
EarlierEntries(n) ==
    {ScheduleRow(100 + k, 1, "Monthly", ThisWeek - 7 * k, "Ann", "Scheduled") : k \in 1 .. n}

EarlierCounts == {0, 4, 5, 6}

OtherEntries ==
    {ScheduleRow(1, 1, "Monthly", PrevWeek, "Bob", "Scheduled"),
     ScheduleRow(2, 1, "Annual", PrevWeek, "Ann", "Completed"),
     ScheduleRow(3, 1, "Monthly", ThisWeek, "Ann", "Scheduled"),
     ScheduleRow(4, 2, "Annual", ThisWeek, "Dan", "Scheduled")}

CacheCompletions ==
    {{},
     {CompletionRow(1, "Monthly", SlashDaysAgo(5), "Ann")},
     {CompletionRow(1, "Monthly", IsoDaysAgo(40), "Bob"),
      CompletionRow(1, "Monthly", IsoDaysAgo(3), "Ann"),
      CompletionRow(2, "Monthly", IsoDaysAgo(3), "Dan")},
     {CompletionRow(1, "Annual", IsoDaysAgo(3), "Ann"),
      CompletionRow(1, "Six Month", IsoDaysAgo(3), "Ann"),
      CompletionRow(1, "Annual", IsoDaysAgo(401), "Ann"),
      CompletionRow(2, "Monthly", SlashDaysAgo(5), "Dan")}}

InitCache ==
    /\ now \in {Midnight(Today) + t : t \in 0 .. TicksPerDay - 1}
    /\ equipment = [b \in {1, 2} |-> BystanderRow]
    /\ priority_map = <<>>
    /\ pm_completions \in CacheCompletions
    /\ \E n \in EarlierCounts, others \in SUBSET OtherEntries :
          weekly_pm_schedules = EarlierEntries(n) \cup others
    /\ query \in [bfm_no : {1, 2, 3}, pm_type : PMType, week_start : EligWeeks]
    /\ result = [cached_done |-> FALSE, uncached_done |-> FALSE,
                 cached |-> <<>>, uncached |-> <<>>]
    /\ run = NoRun

\* what the three methods return for the equipment, PM type and week asked
Lookups(repo) ==
    [completions |-> get_recent_completions(repo, query.bfm_no, CompletionWindowDays),
     scheduled |-> get_scheduled_pms(repo, Midnight(query.week_start), query.bfm_no),
     uncompleted |-> get_uncompleted_schedules(repo, query.bfm_no, query.pm_type,
                                               Midnight(query.week_start))]

\* the three methods called after the bulk loads for the week
LookupCached ==
    /\ ~result.cached_done
    /\ result' = [result EXCEPT !.cached_done = TRUE,
                     !.cached = Lookups(LoadedRepo(Midnight(query.week_start)))]
    /\ UNCHANGED <<now, equipment, priority_map, pm_completions,
                   weekly_pm_schedules, query, run>>

\* the three methods called on a repository that has loaded nothing
LookupUncached ==
    /\ ~result.uncached_done
    /\ result' = [result EXCEPT !.uncached_done = TRUE, !.uncached = Lookups(NewRepo)]
    /\ UNCHANGED <<now, equipment, priority_map, pm_completions,
                   weekly_pm_schedules, query, run>>

NextCache == LookupCached \/ LookupUncached

SpecCache == InitCache /\ [][NextCache]_vars

\* C25: over the same tables, get_recent_completions(e, 400),
\* get_scheduled_pms(W, e) and get_uncompleted_schedules(e, t, W) return
\* after the bulk loads for W the same entries in the same order as the
\* per-item queries: completions newest first, uncompleted entries only of
\* weeks before W with status 'Scheduled', newest first and at most 5.
C25_CacheEquivalence ==
    /\ (result.cached_done /\ result.uncached_done) => result.cached = result.uncached
    /\ \A found \in {result.cached, result.uncached} \ {<<>>} :
          /\ \A i, j \in 1 .. Len(found.completions) :
                i < j => found.completions[i].completion_date
                             >= found.completions[j].completion_date
          /\ Len(found.uncompleted) <= UncompletedLimit
          /\ \A i \in 1 .. Len(found.uncompleted) :
                /\ found.uncompleted[i].week_start < query.week_start
                /\ found.uncompleted[i].status = "Scheduled"
          /\ \A i, j \in 1 .. Len(found.uncompleted) :
                i < j => found.uncompleted[i].week_start
                             >= found.uncompleted[j].week_start

\* both lookups done for equipment 1 and Monthly with at least six earlier
\* 'Scheduled' entries, five of them returned, and two completions returned
C25_Witness ==
    /\ result.cached_done /\ result.uncached_done
    /\ query.bfm_no = 1 /\ query.pm_type = MONTHLY
    /\ EarlierEntries(6) \subseteq weekly_pm_schedules
    /\ Len(result.cached.uncompleted) = UncompletedLimit
    /\ Len(result.cached.completions) = 2
    /\ Len(result.cached.scheduled) = 1

-----------------------------------------------------------------------------
(* The handler of the scheduling tab on the service of pm_scheduler.py *)

\* the exception generate_weekly_schedule raises before its bulk loads, ""
\* for none: its first statement formats week_start.strftime('%Y-%m-%d'),
\* and a str has no attribute strftime
generate_weekly_schedule_raises(week_type) ==
    IF week_type = "datetime" THEN "" ELSE "AttributeError"

\* generate_weekly_assignments from the call of the service on: the call
\* with the week string in a try with except TypeError, in the handler of
\* that the call with the datetime and the wrapping of the list, and
\* around both the except Exception that shows the error
GenerateWeeklyAssignments(week) ==
    LET first == generate_weekly_schedule_raises("str")
        assignments == generate_weekly_schedule(Midnight(week), weekly_pm_target)
    IN  /\ query = NoQuery
        /\ query' = [NoQuery EXCEPT !.week_start = week]
        /\ result' =
              IF first = "TypeError"
                 /\ generate_weekly_schedule_raises("datetime") = ""
              THEN [success |-> TRUE, fallback |-> TRUE,
                    total_assignments |-> Len(assignments),
                    unique_assets |->
                        Cardinality({assignments[i].bfm_no : i \in 1 .. Len(assignments)}),
                    error |-> ""]
              ELSE [success |-> FALSE, fallback |-> FALSE, total_assignments |-> 0,
                    unique_assets |-> 0,
                    error |-> IF first # "" THEN first ELSE "TypeError"]
        /\ UNCHANGED <<now, equipment, priority_map, pm_completions,
                       weekly_pm_schedules, run>>

NextTab == \E week \in GenWeeks : GenerateWeeklyAssignments(week)

SpecTab == InitGen /\ [][NextTab]_vars

\* C24 as stated: with the service of pm_scheduler.py the call with the
\* week string fails, the handler falls back to the call with the datetime,
\* and the list is wrapped into a result with success = True,
\* total_assignments the length of the list and unique_assets the number
\* of distinct equipment codes in it.
C24_Original ==
    query # NoQuery =>
        /\ result.fallback
        /\ result.success
        /\ result.total_assignments
              = Len(generate_weekly_schedule(Midnight(query.week_start), weekly_pm_target))
        /\ result.unique_assets
              = Cardinality({a.bfm_no : a \in
                    {generate_weekly_schedule(Midnight(query.week_start),
                                              weekly_pm_target)[i] :
                        i \in 1 .. Len(generate_weekly_schedule(
                                           Midnight(query.week_start), weekly_pm_target))}})

-----------------------------------------------------------------------------
(* Two services, one per target week, running statement by statement *)

StepProfiles ==
    {"monthly_never", "both_overdue", "monthly_booked", "annual_rebooked", "inactive"}

\* the tables of a roster drawn from StepProfiles
InitSteps ==
    /\ InitGen
    /\ \A b \in DOMAIN equipment : \E p \in StepProfiles : equipment[b] = ProfileRow(p)

\* PMSchedulingService.__init__, twice: each service has its own
\* repository and checker, with no cache loaded; position 0 is before the
\* first bulk load, queries counts the statements the service has executed
\* on the connection
CreateServices(first_week, second_week) ==
    /\ run = NoRun
    /\ run' = [i \in 1 .. 2 |->
                  [week_start |-> IF i = 1 THEN first_week ELSE second_week,
                   position |-> 0, repo |-> NewRepo, queries |-> 0,
                   equipment_list |-> <<>>, assignments |-> <<>>]]
    /\ UNCHANGED <<now, equipment, priority_map, pm_completions,
                   weekly_pm_schedules, query, result>>

\* a bulk load whose cache is an attribute shared by all repositories
StoreCache_shared(services, i, cache, value) ==
    [j \in DOMAIN services |->
        [services[j] EXCEPT !.repo[cache] = value,
                            !.queries = IF j = i THEN @ + 1 ELSE @,
                            !.position = IF j = i THEN @ + 1 ELSE @]]

\* a bulk load that runs its query and keeps no cache
StoreCache_dropped(services, i, cache, value) ==
    [services EXCEPT ![i].queries = @ + 1, ![i].position = @ + 1]

\* a bulk load of service i: one query, and the cache attribute set on the
\* repository (or checker) of that service
StoreCache(services, i, cache, value) ==
    [services EXCEPT ![i].repo[cache] = value,
                     ![i].queries = @ + 1,
                     ![i].position = @ + 1]

\* the next statement of generate_weekly_schedule in service i: the four
\* bulk loads, _load_equipment_with_priority, generate_assignments; in
\* generate_assignments every lookup of check_eligibility whose cache is
\* None goes to the database, counted once for each equipment
ServiceStep(i) ==
    /\ run # NoRun
    /\ run[i].position < 6
    /\ run' =
          CASE run[i].position = 0 ->
                  StoreCache(run, i, "completion_cache",
                             bulk_load_completions(CompletionWindowDays))
            [] run[i].position = 1 ->
                  StoreCache(run, i, "scheduled_cache",
                             bulk_load_scheduled(Midnight(run[i].week_start)))
            [] run[i].position = 2 ->
                  StoreCache(run, i, "uncompleted_cache",
                             bulk_load_uncompleted_schedules(Midnight(run[i].week_start)))
            [] run[i].position = 3 ->
                  StoreCache(run, i, "next_annual_cache", bulk_load_next_annual)
            [] run[i].position = 4 ->
                  [run EXCEPT ![i].equipment_list = load_equipment_with_priority,
                              ![i].queries = @ + 1,
                              ![i].position = 5]
            [] OTHER ->
                  [run EXCEPT
                      ![i].assignments =
                          generate_assignments(run[i].repo, run[i].equipment_list,
                                               Midnight(run[i].week_start),
                                               weekly_pm_target),
                      ![i].queries =
                          @ + Len(run[i].equipment_list)
                                * Cardinality({c \in DOMAIN run[i].repo :
                                                  ~run[i].repo[c].loaded}),
                      ![i].position = 6]
    /\ UNCHANGED <<now, equipment, priority_map, pm_completions,
                   weekly_pm_schedules, query, result>>

NextSteps ==
    \/ \E first_week \in GenWeeks :
          \E second_week \in GenWeeks \ {first_week} :
              CreateServices(first_week, second_week)
    \/ \E i \in 1 .. 2 : ServiceStep(i)

SpecSteps == InitSteps /\ [][NextSteps]_vars

\* C21: two runs for different target weeks, each on its own service, with
\* their bulk loads and generation steps interleaved in any order over the
\* same tables, each return the assignment list the run returns alone.
C21_NoInterference ==
    run # NoRun =>
        \A i \in 1 .. 2 :
            run[i].position = 6 =>
                run[i].assignments
                    = generate_weekly_schedule(Midnight(run[i].week_start),
                                               weekly_pm_target)

\* both runs returned, with different lists for the two weeks
C21_Witness ==
    /\ run # NoRun
    /\ run[1].position = 6 /\ run[2].position = 6
    /\ run[1].assignments # run[2].assignments
    /\ run[1].assignments # <<>>

====
